---------------------------- MODULE Spec2Model ----------------------------
(* The chess rules engine of src/chess-engine.js as a state machine.      *)
(* Piece objects live in a heap (pieces) and are referred to by identity, *)
(* as in the source: the grid, the moves of the legal-move index and the  *)
(* last move all hold references to the same Piece objects.               *)
(* Spec is the engine under any sequence of calls; UiSpec, at the end of  *)
(* the module, is the page of src/app.js driving its engine.              *)
EXTENDS Integers, Sequences, FiniteSets, TLC

VARIABLES
  width,         \* ChessEngine.#width, Grid.width
  height,        \* ChessEngine.#height, Grid.height
  grid,          \* Grid.squares of ChessEngine.grid: index -> piece id or None
  pieces,        \* heap of Piece objects: id -> [kind, color, moved]
  moveArray,     \* ChessEngine.moveArray: index -> sequence of Move
  playingColor,  \* ChessEngine.playingColor
  takenPiece,    \* ChessEngine.takenPiece
  lastMove,      \* ChessEngine.lastMove
  isGameOver,    \* ChessEngine.#isGameOver
  ret,           \* outcome of the latest call on the engine
  movedOnce,     \* pieces moved by a successful move since the latest init
  nMoves,        \* calls since the latest init counted against MaxMoves
  nCoded,        \* of these, the ones called with a promotion code
  ui,            \* the fields of the UserInterface object of src/app.js
  dom,           \* the children of the pieces container, in document order
  timers,        \* the elements a pending setTimeout of requestMove removes
  pointerDown,   \* the pointer is pressed
  event,         \* the latest pointer event or click
  plan           \* the game the user of the application plays

vars == <<width, height, grid, pieces, moveArray, playingColor, takenPiece, lastMove,
          isGameOver, ret, movedOnce, nMoves, nCoded,
          ui, dom, timers, pointerDown, event, plan>>


engineVars == <<grid, pieces, moveArray, playingColor, takenPiece, lastMove,
                isGameOver>>

-----------------------------------------------------------------------------
(* Bounds of the model: the calls of move that find their move in the     *)
(* index, per game; those of them made with a promotion code; and the ones *)
(* made after a call that threw.                                           *)
MaxMoves == 2
MaxCoded == 1
MaxAfterThrow == 1

(* In a game started from the application's layout, with its 32 pieces,  *)
(* this many of the MaxMoves calls are made.                             *)
MaxOpening == 0

(* The queries are called in games with at most this many counted calls. *)
MaxProbed == 1

(* Board size the application constructs the engine with. *)
BOARD_SQUARES_WIDTH == 8
BOARD_SQUARES_HEIGHT == 8

(* ChessEngine.constructor: the size the engine takes for the arguments *)
constructed(w, h) ==
  IF w > 0 /\ h > 0 THEN [width |-> w, height |-> h]
  ELSE [width |-> 8, height |-> 8]

(* the sizes engines are constructed with: the application's, a smaller  *)
(* square board, a board wider than high, and an invalid size            *)
ConstructorArgs ==
  {<<BOARD_SQUARES_WIDTH, BOARD_SQUARES_HEIGHT>>, <<4, 4>>, <<3, 2>>, <<0, 0>>}

(* the boards of these engines, as <<width, height>> *)
Boards ==
  {<<constructed(args[1], args[2]).width, constructed(args[1], args[2]).height>> :
     args \in ConstructorArgs}

(* ChessEngine.#size *)
size == width * height

-----------------------------------------------------------------------------
(* Point *)
Point(px, py) == [x |-> px, y |-> py]
add(p, other) == Point(p.x + other.x, p.y + other.y)
equals(p, other) == p.x = other.x /\ p.y = other.y

Points == {Point(px, py) : px \in 0..(width - 1), py \in 0..(height - 1)}

(* undefined / null references *)
None == 0
NoPoint == Point(-1, -1)

-----------------------------------------------------------------------------
(* Grid *)
valueAt(g, point) ==
  LET i == point.x + point.y * height
  IN  IF i \in DOMAIN g THEN g[i] ELSE None

(* a store beyond the end of the array extends it *)
setValueAt(g, point, value) ==
  IF (point.x + point.y * height) \in DOMAIN g
  THEN [g EXCEPT ![point.x + point.y * height] = value]
  ELSE [i \in DOMAIN g \cup {point.x + point.y * height} |->
          IF i \in DOMAIN g THEN g[i] ELSE value]

isInside(point) ==
  point.x >= 0 /\ point.x < width /\ point.y >= 0 /\ point.y < height

moveValue(g, from, to) ==
  IF equals(from, to) THEN g
  ELSE setValueAt(setValueAt(g, to, valueAt(g, from)), from, None)

(* The order in which Grid.each visits the points, x outer, y inner, and *)
(* the slot this.valueAt(point) reads for the k-th point; tabulated for *)
(* every board.                                                        *)
eachOn ==
  [b \in Boards |->
     [k \in 1..(b[1] * b[2]) |-> Point((k - 1) \div b[2], (k - 1) % b[2])]]

each == eachOn[<<width, height>>]

eachSlotOn ==
  [b \in Boards |->
     [k \in 1..(b[1] * b[2]) |-> eachOn[b][k].x + eachOn[b][k].y * b[2]]]

eachSlot == eachSlotOn[<<width, height>>]
eachValue(g, k) == IF eachSlot[k] \in DOMAIN g THEN g[eachSlot[k]] ELSE None

-----------------------------------------------------------------------------
(* MoveType, PieceCode, PieceColor *)
MOVE == "move"
CAPTURE == "capture"
CASTLE == "castle"
EN_PASSANT == "en-passant"

PAWN == "p"
ROOK == "r"
KNIGHT == "n"
BISHOP == "b"
KING == "k"
QUEEN == "q"

WHITE == "w"
BLACK == "b"

(* Move, CastleMove, EnpassantMove *)
Move(piece, moveType, from, to) ==
  [piece |-> piece, moveType |-> moveType, from |-> from, to |-> to,
   rook |-> None, rookFrom |-> NoPoint, rookTo |-> NoPoint,
   captureAt |-> NoPoint]

CastleMove(piece, moveType, from, to, rook, rookFrom, rookTo) ==
  [piece |-> piece, moveType |-> moveType, from |-> from, to |-> to,
   rook |-> rook, rookFrom |-> rookFrom, rookTo |-> rookTo,
   captureAt |-> NoPoint]

kingPositions(m) == <<m.from, m.rookTo, m.to>>

EnpassantMove(piece, moveType, from, to, captureAt) ==
  [piece |-> piece, moveType |-> moveType, from |-> from, to |-> to,
   rook |-> None, rookFrom |-> NoPoint, rookTo |-> NoPoint,
   captureAt |-> captureAt]

(* null and undefined in a slot that otherwise holds a Move *)
NullMove == Move(None, "null", NoPoint, NoPoint)
UndefinedMove == Move(None, "undefined", NoPoint, NoPoint)

(* Piece: a freshly constructed object *)
Piece(kind, color) == [kind |-> kind, color |-> color, moved |-> FALSE]
UndefinedPiece == [kind |-> "undefined", color |-> "undefined", moved |-> FALSE]

-----------------------------------------------------------------------------
(* Piece movement rules: candidate moves, check-safety ignored.           *)
(* g is the grid, ps the heap; piece is the id of the moving piece.       *)

(* seeded fault: the first piece met is captured whatever its colour *)
RECURSIVE rayCastAnyColor(_, _, _, _, _, _)
rayCastAnyColor(piece, center, newPos, direction, g, ps) ==
  IF ~isInside(newPos) THEN <<>>
  ELSE IF valueAt(g, newPos) # None
  THEN <<Move(piece, CAPTURE, center, newPos)>>
  ELSE <<Move(piece, MOVE, center, newPos)>>
       \o rayCastAnyColor(piece, center, add(newPos, direction), direction, g, ps)

(* One ray of Rook.move / Bishop.move / Queen.move (the while loop). *)
RECURSIVE rayCast(_, _, _, _, _, _)
rayCast(piece, center, newPos, direction, g, ps) ==
  IF ~isInside(newPos) THEN <<>>
  ELSE LET existingPiece == valueAt(g, newPos)
       IN  IF existingPiece # None
           THEN IF ps[existingPiece].color # ps[piece].color
                THEN <<Move(piece, CAPTURE, center, newPos)>>
                ELSE <<>>
           ELSE <<Move(piece, MOVE, center, newPos)>>
                \o rayCast(piece, center, add(newPos, direction), direction, g, ps)

(* directions.forEach of the sliding pieces *)
RECURSIVE slide(_, _, _, _, _, _)
slide(piece, center, directions, i, g, ps) ==
  IF i > Len(directions) THEN <<>>
  ELSE rayCast(piece, center, add(center, directions[i]), directions[i], g, ps)
       \o slide(piece, center, directions, i + 1, g, ps)

(* seeded fault: a square that holds a piece is captured whatever the *)
(* colour of the piece                                                *)
RECURSIVE hopAnyColor(_, _, _, _, _, _)
hopAnyColor(piece, center, directions, i, g, ps) ==
  IF i > Len(directions) THEN <<>>
  ELSE LET newPos == add(center, directions[i])
           here == IF ~isInside(newPos) THEN <<>>
                   ELSE IF valueAt(g, newPos) # None
                        THEN <<Move(piece, CAPTURE, center, newPos)>>
                        ELSE <<Move(piece, MOVE, center, newPos)>>
       IN  here \o hopAnyColor(piece, center, directions, i + 1, g, ps)

(* directions.forEach of Knight.move and of the regular moves of King.move *)
RECURSIVE hop(_, _, _, _, _, _)
hop(piece, center, directions, i, g, ps) ==
  IF i > Len(directions) THEN <<>>
  ELSE LET newPos == add(center, directions[i])
           existingPiece == valueAt(g, newPos)
           here == IF ~isInside(newPos) THEN <<>>
                   ELSE IF existingPiece # None
                        THEN IF ps[existingPiece].color # ps[piece].color
                             THEN <<Move(piece, CAPTURE, center, newPos)>>
                             ELSE <<>>
                        ELSE <<Move(piece, MOVE, center, newPos)>>
       IN  here \o hop(piece, center, directions, i + 1, g, ps)

RookDirections == <<Point(-1, 0), Point(0, -1), Point(1, 0), Point(0, 1)>>

KnightDirections ==
  <<Point(-2, -1), Point(-1, -2), Point(1, -2), Point(2, -1),
    Point(2, 1), Point(1, 2), Point(-1, 2), Point(-2, 1)>>

BishopDirections == <<Point(-1, -1), Point(1, -1), Point(1, 1), Point(-1, 1)>>

KingDirections ==
  <<Point(-1, 0), Point(-1, -1), Point(0, -1), Point(1, -1),
    Point(1, 0), Point(1, 1), Point(0, 1), Point(-1, 1)>>

QueenDirections ==
  <<Point(-1, 0), Point(-1, -1), Point(0, -1), Point(1, -1),
    Point(1, 0), Point(1, 1), Point(0, 1), Point(-1, 1)>>

RookMove(piece, center, g, ps) == slide(piece, center, RookDirections, 1, g, ps)

KnightMove(piece, center, g, ps) == hop(piece, center, KnightDirections, 1, g, ps)

BishopMove(piece, center, g, ps) == slide(piece, center, BishopDirections, 1, g, ps)

QueenMove(piece, center, g, ps) == slide(piece, center, QueenDirections, 1, g, ps)

(* Pawn: constructor fields *)
PawnDirection(color) == IF color = WHITE THEN Point(0, -1) ELSE Point(0, 1)

PawnCapturingDirections(color) ==
  IF color = WHITE THEN <<Point(-1, -1), Point(1, -1)>>
  ELSE <<Point(-1, 1), Point(1, 1)>>

PawnSides == <<Point(-1, 0), Point(1, 0)>>

(* seeded fault: the forward move stops after one square whatever the *)
(* limit is                                                          *)
pawnForwardOneSquare(piece, center, newPos, i, limit, g, ps) ==
  IF i >= limit THEN <<>>
  ELSE IF ~isInside(newPos) THEN <<>>
  ELSE IF valueAt(g, newPos) # None THEN <<>>
  ELSE <<Move(piece, MOVE, center, newPos)>>

(* Pawn.move, forward move: the for loop with limit 1 or 2 *)
RECURSIVE pawnForward(_, _, _, _, _, _, _)
pawnForward(piece, center, newPos, i, limit, g, ps) ==
  IF i >= limit THEN <<>>
  ELSE IF ~isInside(newPos) THEN <<>>
  ELSE IF valueAt(g, newPos) # None THEN <<>>
  ELSE <<Move(piece, MOVE, center, newPos)>>
       \o pawnForward(piece, center, add(newPos, PawnDirection(ps[piece].color)),
                      i + 1, limit, g, ps)

(* seeded fault: the diagonal move is made onto an empty square as well *)
pawnCaptureOrStep(piece, center, direction, g, ps) ==
  LET newPos == add(center, direction)
      existingPiece == valueAt(g, newPos)
  IN  IF ~isInside(newPos) THEN <<>>
      ELSE IF existingPiece = None \/ ps[existingPiece].color # ps[piece].color
           THEN <<Move(piece, CAPTURE, center, newPos)>>
           ELSE <<>>

(* Pawn.move, diagonal capture in one capturing direction *)
pawnCapture(piece, center, direction, g, ps) ==
  LET newPos == add(center, direction)
      existingPiece == valueAt(g, newPos)
  IN  IF ~isInside(newPos) THEN <<>>
      ELSE IF existingPiece # None /\ ps[existingPiece].color # ps[piece].color
           THEN <<Move(piece, CAPTURE, center, newPos)>>
           ELSE <<>>

(* seeded fault: en passant without the test of the square the last move *)
(* started from                                                          *)
pawnEnPassantBeside(piece, center, side, ps, lm) ==
  LET direction == PawnDirection(ps[piece].color)
      sidePos == add(center, side)
  IN  IF ~isInside(sidePos) THEN <<>>
      ELSE IF equals(sidePos, lm.to)
           THEN <<EnpassantMove(piece, EN_PASSANT, center, add(sidePos, direction), sidePos)>>
           ELSE <<>>

(* Pawn.move, en passant towards one side *)
pawnEnPassant(piece, center, side, ps, lm) ==
  LET direction == PawnDirection(ps[piece].color)
      sidePos == add(center, side)
      expectedStartPos == add(add(sidePos, direction), direction)
  IN  IF ~isInside(sidePos) THEN <<>>
      ELSE IF equals(sidePos, lm.to) /\ equals(expectedStartPos, lm.from)
           THEN <<EnpassantMove(piece, EN_PASSANT, center, add(sidePos, direction), sidePos)>>
           ELSE <<>>

PawnMove(piece, center, g, ps, lm) ==
  LET color == ps[piece].color
      limit == IF ps[piece].moved THEN 1 ELSE 2
      forward == pawnForward(piece, center, add(center, PawnDirection(color)),
                             0, limit, g, ps)
      diagonal == pawnCapture(piece, center, PawnCapturingDirections(color)[1], g, ps)
                  \o pawnCapture(piece, center, PawnCapturingDirections(color)[2], g, ps)
      enPassant ==
        IF lm.piece # None /\ ps[lm.piece].kind = PAWN /\ ps[lm.piece].color # color
        THEN pawnEnPassant(piece, center, PawnSides[1], ps, lm)
             \o pawnEnPassant(piece, center, PawnSides[2], ps, lm)
        ELSE <<>>
  IN  forward \o diagonal \o enPassant

(* King: constructor fields *)
KingLeft(color) == IF color = WHITE THEN Point(-1, 0) ELSE Point(1, 0)
KingRight(color) == IF color = WHITE THEN Point(1, 0) ELSE Point(-1, 0)
KingCastleLeftOffset(color) == IF color = WHITE THEN Point(-2, 0) ELSE Point(2, 0)
KingCastleRightOffset(color) == IF color = WHITE THEN Point(2, 0) ELSE Point(-2, 0)

(* King.move, castling towards one side: the while loop *)
RECURSIVE castleScan(_, _, _, _, _, _, _)
castleScan(piece, center, newPos, direction, offset, g, ps) ==
  IF ~isInside(newPos) THEN <<>>
  ELSE LET existingPiece == valueAt(g, newPos)
       IN  IF existingPiece # None /\ ps[existingPiece].kind # ROOK THEN <<>>
           ELSE IF existingPiece # None /\ ps[existingPiece].kind = ROOK
                   /\ ~ps[existingPiece].moved
           THEN LET rookFrom == newPos
                    rookTo == add(center, direction)
                    kingTo == add(center, offset)
                IN  IF valueAt(g, kingTo) # None THEN <<>>
                    ELSE IF valueAt(g, rookTo) # None THEN <<>>
                    ELSE <<CastleMove(piece, CASTLE, center, kingTo,
                                      existingPiece, rookFrom, rookTo)>>
           ELSE castleScan(piece, center, add(newPos, direction), direction,
                           offset, g, ps)

(* seeded fault: castling is generated whether or not the king has moved *)
KingMoveAnyTime(piece, center, g, ps) ==
  LET color == ps[piece].color
  IN  hop(piece, center, KingDirections, 1, g, ps)
      \o castleScan(piece, center, add(center, KingLeft(color)),
                    KingLeft(color), KingCastleLeftOffset(color), g, ps)
      \o castleScan(piece, center, add(center, KingRight(color)),
                    KingRight(color), KingCastleRightOffset(color), g, ps)

KingMove(piece, center, g, ps) ==
  LET color == ps[piece].color
      regular == hop(piece, center, KingDirections, 1, g, ps)
      castling ==
        IF ps[piece].moved = FALSE
        THEN castleScan(piece, center, add(center, KingLeft(color)),
                        KingLeft(color), KingCastleLeftOffset(color), g, ps)
             \o castleScan(piece, center, add(center, KingRight(color)),
                           KingRight(color), KingCastleRightOffset(color), g, ps)
        ELSE <<>>
  IN  regular \o castling

(* piece.move(center, grid, lastMove): dispatch on the class of the piece *)
pieceMove(piece, center, g, ps, lm) ==
  CASE ps[piece].kind = PAWN -> PawnMove(piece, center, g, ps, lm)
    [] ps[piece].kind = ROOK -> RookMove(piece, center, g, ps)
    [] ps[piece].kind = KNIGHT -> KnightMove(piece, center, g, ps)
    [] ps[piece].kind = BISHOP -> BishopMove(piece, center, g, ps)
    [] ps[piece].kind = KING -> KingMove(piece, center, g, ps)
    [] ps[piece].kind = QUEEN -> QueenMove(piece, center, g, ps)

-----------------------------------------------------------------------------
(* pieceFromCode: a code is the pair of its two characters *)
pieceFromCode(code) ==
  LET color == code[1]
      pieceType == code[2]
  IN  CASE pieceType = "p" -> Piece(PAWN, color)
        [] pieceType = "r" -> Piece(ROOK, color)
        [] pieceType = "n" -> Piece(KNIGHT, color)
        [] pieceType = "b" -> Piece(BISHOP, color)
        [] pieceType = "k" -> Piece(KING, color)
        [] pieceType = "q" -> Piece(QUEEN, color)
        [] OTHER -> UndefinedPiece

-----------------------------------------------------------------------------
(* ChessEngine *)

NoError == "none"

(* #resetMoveArray *)
resetMoveArray == [i \in 0..(size - 1) |-> <<>>]

(* seeded fault: the playing colour is not swapped *)
keepPlayingColor(pc) == pc

(* #swapPlayingColor *)
swapPlayingColor(pc) ==
  CASE pc = WHITE -> BLACK
    [] pc = BLACK -> WHITE
    [] OTHER -> pc

(* #step: the grid and takenPiece after the move, or the error thrown *)
step(g, tp, m) ==
  LET taken == CASE m.moveType = CAPTURE -> valueAt(g, m.to)
                 [] m.moveType = EN_PASSANT -> valueAt(g, m.captureAt)
                 [] OTHER -> tp
      threw == IF m.moveType = MOVE /\ valueAt(g, m.to) # None
               THEN "Cannot step moveType.MOVE to place with existing piece"
               ELSE NoError
      g1 == IF m.moveType = CASTLE THEN moveValue(g, m.rookFrom, m.rookTo) ELSE g
  IN  IF threw # NoError
      THEN [grid |-> g, takenPiece |-> tp, threw |-> threw]
      ELSE [grid |-> moveValue(g1, m.from, m.to), takenPiece |-> taken,
            threw |-> NoError]

(* seeded fault: the taken piece is not put back *)
undoWithoutTaken(g, tp, m) ==
  LET g1 == moveValue(g, m.to, m.from)
  IN  IF m.moveType = CASTLE THEN moveValue(g1, m.rookTo, m.rookFrom) ELSE g1

(* #undo *)
undo(g, tp, m) ==
  LET g1 == moveValue(g, m.to, m.from)
  IN  CASE m.moveType = CAPTURE -> setValueAt(g1, m.to, tp)
        [] m.moveType = CASTLE -> moveValue(g1, m.rookTo, m.rookFrom)
        [] m.moveType = EN_PASSANT -> setValueAt(g1, m.captureAt, tp)
        [] OTHER -> g1

(* #validatePosition, the test applied to one enemy move *)
landsOnKing(enemyMove, kingPosition, m) ==
  IF enemyMove.moveType # CAPTURE /\ m.moveType # CASTLE THEN FALSE
  ELSE \/ equals(kingPosition, enemyMove.to)
       \/ /\ m.moveType = CASTLE
          /\ \E i \in 1..Len(kingPositions(m)) :
               equals(kingPositions(m)[i], enemyMove.to)

(* #validatePosition, enemyMoves.forEach: no move of the enemy piece lands *)
(* on the king                                                            *)
noneLandsOnKing(enemyMoves, kingPosition, m) ==
  \A j \in 1..Len(enemyMoves) : ~landsOnKing(enemyMoves[j], kingPosition, m)

(* seeded fault: the position is allowed whenever the king is on the *)
(* board, whatever the enemy can capture                             *)
validatePositionKingOnBoard(g, ps, pc, lm, m) ==
  \E k \in 1..size : /\ eachValue(g, k) # None
                      /\ ps[eachValue(g, k)].kind = KING
                      /\ ps[eachValue(g, k)].color = pc

(* #validatePosition: g is the grid after #step(m) *)
validatePosition(g, ps, pc, lm, m) ==
  LET occupied == {k \in 1..size : eachValue(g, k) # None}
      kings == {k \in occupied : /\ ps[eachValue(g, k)].kind = KING
                                 /\ ps[eachValue(g, k)].color = pc}
      enemyPositions == {k \in occupied \ kings : ps[eachValue(g, k)].color # pc}
  IN  IF kings = {} THEN FALSE
      ELSE LET kingPosition == each[CHOOSE k \in kings : \A k2 \in kings : k2 <= k]
           IN  \A k \in enemyPositions :
                 noneLandsOnKing(pieceMove(eachValue(g, k), each[k], g, ps, lm),
                                 kingPosition, m)

(* #precomputeMoves, moves.forEach: step, validate and undo each candidate *)
RECURSIVE validateMoves(_, _, _, _, _, _, _)
validateMoves(moves, j, acc, piece, ps, pc, lm) ==
  IF j > Len(moves) \/ acc.threw # NoError THEN acc
  ELSE LET m == moves[j]
           s == step(acc.grid, acc.takenPiece, m)
       IN  IF ~isInside(m.to)
           THEN [acc EXCEPT !.threw = "Invalid move generated"]
           ELSE IF s.threw # NoError
           THEN [acc EXCEPT !.threw = s.threw]
           ELSE LET ok == ps[piece].color = pc
                          /\ validatePosition(s.grid, ps, pc, lm, m)
                IN  validateMoves(moves, j + 1,
                      [grid |-> undo(s.grid, s.takenPiece, m),
                       takenPiece |-> s.takenPiece,
                       validMoves |-> IF ok THEN Append(acc.validMoves, m)
                                      ELSE acc.validMoves,
                       threw |-> NoError],
                      piece, ps, pc, lm)

(* #precomputeMoves, grid.each: the squares from the k-th on.  The callback *)
(* returns at once on a square that is empty or holds a piece of the other *)
(* colour, so the scan goes straight to the next square that does neither. *)
RECURSIVE precomputeFrom(_, _, _, _, _)

(* the callback stores the valid moves r found for the piece at square k *)
(* and the scan goes on                                                  *)
storeMoves(r, k, acc, ps, pc, lm) ==
  IF r.threw # NoError
  THEN [acc EXCEPT !.grid = r.grid,
                   !.takenPiece = r.takenPiece,
                   !.threw = r.threw]
  ELSE precomputeFrom(k + 1,
         [grid |-> r.grid, takenPiece |-> r.takenPiece,
          moveArray |-> [acc.moveArray EXCEPT
                           ![each[k].x + each[k].y * width] = r.validMoves],
          validMoveCount |-> acc.validMoveCount + Len(r.validMoves),
          threw |-> NoError],
         ps, pc, lm)

(* the callback on square k, which holds a piece of the playing colour *)
precomputeAt(k, acc, ps, pc, lm) ==
  storeMoves(
    validateMoves(
      pieceMove(eachValue(acc.grid, k), each[k], acc.grid, ps, lm), 1,
      [grid |-> acc.grid, takenPiece |-> acc.takenPiece,
       validMoves |-> <<>>, threw |-> NoError],
      eachValue(acc.grid, k), ps, pc, lm),
    k, acc, ps, pc, lm)

precomputeFrom(k, acc, ps, pc, lm) ==
  LET own == {k2 \in k..size : /\ eachValue(acc.grid, k2) # None
                               /\ ps[eachValue(acc.grid, k2)].color = pc}
  IN  IF own = {} \/ acc.threw # NoError THEN acc
      ELSE precomputeAt(CHOOSE k2 \in own : \A k3 \in own : k2 <= k3,
                        acc, ps, pc, lm)

(* #precomputeMoves *)
precomputeMoves(g, tp, ps, pc, lm) ==
  precomputeFrom(1,
    [grid |-> g, takenPiece |-> tp, moveArray |-> resetMoveArray,
     validMoveCount |-> 0, threw |-> NoError],
    ps, pc, lm)

(* seeded fault: the list is handed out once and found empty when asked *)
(* for again                                                           *)
getMovesAtPointOnce(point) ==
  IF ret.op = "getMovesAtPoint" THEN <<>>
  ELSE moveArray[point.x + point.y * width]

(* getMovesAtPoint *)
getMovesAtPoint(point) == moveArray[point.x + point.y * width]

(* getState: the occupied squares in the order of Grid.each *)
getState ==
  SelectSeq([k \in 1..size |-> [piece |-> eachValue(grid, k), point |-> each[k]]],
            LAMBDA position : position.piece # None)

(* isPromotion *)
isPromotion(from, to) ==
  LET piece == valueAt(grid, from)
  IN  IF /\ piece # None
         /\ pieces[piece].kind = PAWN
         /\ pieces[piece].color = playingColor
         /\ (to.y = 7 \/ to.y = 0)
      THEN \E i \in 1..Len(getMovesAtPoint(from)) :
             equals(getMovesAtPoint(from)[i].to, to)
      ELSE FALSE

(* init, the loop that populates the grid: entry i of the layout (counted *)
(* from 0 as in the source) is stored at Point(i % width, floor(i / width)); *)
(* a later store to the same slot overwrites an earlier one.  The object   *)
(* constructed for entry i gets the id i + 1.                             *)
(* Tabulated for every board.                                             *)
initSlotOn ==
  [b \in Boards |->
     [i \in 0..(b[1] * b[2] - 1) |-> (i % b[1]) + (i \div b[1]) * b[2]]]

initSlot == initSlotOn[<<width, height>>]

initSlots == {initSlot[i] : i \in 0..(size - 1)}

(* the layout entry whose store into a slot is the last one of the loop *)
lastStoredOn ==
  [b \in Boards |->
     [j \in {initSlotOn[b][i] : i \in 0..(b[1] * b[2] - 1)} |->
        CHOOSE i \in 0..(b[1] * b[2] - 1) :
          /\ initSlotOn[b][i] = j
          /\ \A i2 \in 0..(b[1] * b[2] - 1) : initSlotOn[b][i2] = j => i2 <= i]]

lastStored == lastStoredOn[<<width, height>>]

populate(g, layout) ==
  [j \in DOMAIN g \cup DOMAIN lastStored |->
     IF j \notin DOMAIN lastStored THEN g[j]
     ELSE IF pieceFromCode(layout[lastStored[j] + 1]) = UndefinedPiece THEN None
     ELSE lastStored[j] + 1]

(* the Piece objects init constructs *)
layoutPieces(layout) ==
  [id \in {i \in 1..size : pieceFromCode(layout[i]) # UndefinedPiece} |->
     pieceFromCode(layout[id])]

(* seeded fault: the last move is not cleared *)
initialisedKeepingLast(r, ps) ==
  [grid |-> r.grid, pieces |-> ps, moveArray |-> r.moveArray,
   playingColor |-> WHITE, takenPiece |-> r.takenPiece,
   lastMove |-> lastMove, isGameOver |-> FALSE,
   success |-> r.threw = NoError, move |-> UndefinedMove,
   threw |-> r.threw]

(* init, after #precomputeMoves returned (or threw) r *)
initialised(r, ps) ==
  [grid |-> r.grid, pieces |-> ps, moveArray |-> r.moveArray,
   playingColor |-> WHITE, takenPiece |-> r.takenPiece,
   lastMove |-> NullMove, isGameOver |-> FALSE,
   success |-> r.threw = NoError, move |-> UndefinedMove,
   threw |-> r.threw]

(* seeded fault: the game variables are reset before the length of the *)
(* layout is checked                                                  *)
initOutcomeResetFirst(layout) ==
  IF Len(layout) # size
  THEN [grid |-> grid, pieces |-> pieces, moveArray |-> moveArray,
        playingColor |-> WHITE, takenPiece |-> None,
        lastMove |-> NullMove, isGameOver |-> FALSE,
        success |-> FALSE, move |-> UndefinedMove, threw |-> "Invalid plan size"]
  ELSE initialised(precomputeMoves(populate(grid, layout), None,
                                   layoutPieces(layout), WHITE, NullMove),
                   layoutPieces(layout))

(* init(layout): the engine after the call and what the call returned *)
initOutcome(layout) ==
  IF Len(layout) # size
  THEN [grid |-> grid, pieces |-> pieces, moveArray |-> moveArray,
        playingColor |-> playingColor, takenPiece |-> takenPiece,
        lastMove |-> lastMove, isGameOver |-> isGameOver,
        success |-> FALSE, move |-> UndefinedMove, threw |-> "Invalid plan size"]
  ELSE \* the grid is populated, then #resetGameVariables, #precomputeMoves
       initialised(precomputeMoves(populate(grid, layout), None,
                                   layoutPieces(layout), WHITE, NullMove),
                   layoutPieces(layout))

(* no promotion code passed (undefined) *)
NoCode == <<>>

(* id of the next Piece object constructed by pieceFromCode in move *)
newPieceId(ps) == size + 1 + Cardinality({id \in DOMAIN ps : id > size})

(* move, left by an exception: what was assigned before it stays *)
failedMove(g, ps, tp, m, error) ==
  [grid |-> g, pieces |-> ps, moveArray |-> moveArray,
   playingColor |-> playingColor, takenPiece |-> tp,
   lastMove |-> lastMove, isGameOver |-> isGameOver,
   success |-> FALSE, move |-> m, threw |-> error]

(* seeded fault: the promotion piece is placed as constructed, its moved *)
(* flag not set                                                         *)
cleanupUnmoved(g, ps, m, promotionCode, promotionPiece) ==
  IF m.moveType = CASTLE \/ promotionCode = NoCode
       \/ ps[m.piece].kind # PAWN \/ promotionPiece = UndefinedPiece
  THEN [grid |-> g, pieces |-> ps, threw |-> NoError]
  ELSE [grid |-> setValueAt(g, m.to, newPieceId(ps)),
        pieces |-> ps @@ (newPieceId(ps) :> promotionPiece),
        threw |-> NoError]

(* move, "Cleanup after step": the moved flags and the promotion, on the *)
(* grid g that #step left                                                *)
cleanup(g, ps, m, promotionCode, promotionPiece) ==
  IF m.moveType = CASTLE
  THEN [grid |-> g, pieces |-> [ps EXCEPT ![m.rook].moved = TRUE],
        threw |-> NoError]
  ELSE IF promotionCode = NoCode
  THEN [grid |-> g, pieces |-> ps, threw |-> NoError]
  ELSE IF ps[m.piece].kind # PAWN
  THEN [grid |-> g, pieces |-> ps,
        threw |-> "Trying to promote non-pawn piece."]
  ELSE IF promotionPiece = UndefinedPiece
  THEN [grid |-> setValueAt(g, m.to, None), pieces |-> ps,
        threw |-> "TypeError"]
  ELSE [grid |-> setValueAt(g, m.to, newPieceId(ps)),
        pieces |-> ps @@ (newPieceId(ps) :> [promotionPiece EXCEPT !.moved = TRUE]),
        threw |-> NoError]

(* seeded fault: the game is not declared over when no move is left *)
preparedNoCheckmate(r, ps, pc, m) ==
  [grid |-> r.grid, pieces |-> ps, moveArray |-> r.moveArray,
   playingColor |-> pc, takenPiece |-> r.takenPiece,
   lastMove |-> m, isGameOver |-> isGameOver,
   success |-> r.threw = NoError, move |-> m, threw |-> r.threw]

(* move, after #precomputeMoves returned (or threw) r *)
prepared(r, ps, pc, m) ==
  [grid |-> r.grid, pieces |-> ps, moveArray |-> r.moveArray,
   playingColor |-> pc, takenPiece |-> r.takenPiece,
   lastMove |-> m,
   isGameOver |-> IF r.threw = NoError /\ r.validMoveCount = 0
                  THEN TRUE ELSE isGameOver,
   success |-> r.threw = NoError, move |-> m, threw |-> r.threw]

(* move, "Preparation for next move" and "Handle checkmate", after the *)
(* cleanup c                                                          *)
prepareNext(c, tp, pc, m) ==
  IF c.threw # NoError THEN failedMove(c.grid, c.pieces, tp, m, c.threw)
  ELSE prepared(precomputeMoves(c.grid, tp, c.pieces, pc, m), c.pieces, pc, m)

(* move, after #step returned (or threw) s *)
stepped(s, m, promotionCode) ==
  IF s.threw # NoError THEN failedMove(grid, pieces, takenPiece, m, s.threw)
  ELSE prepareNext(cleanup(s.grid, [pieces EXCEPT ![m.piece].moved = TRUE],
                           m, promotionCode, pieceFromCode(promotionCode)),
                   s.takenPiece, swapPlayingColor(playingColor), m)

(* move, the branch taken once the move is found in the index *)
resolveMove(m, promotionCode) ==
  stepped(step(grid, takenPiece, m), m, promotionCode)

(* seeded fault: the search takes the last move looked at, whether or *)
(* not its destination is pointTo                                    *)
findMoveLast(moves, pointTo) ==
  [isValid |-> Len(moves) > 0,
   move |-> IF Len(moves) = 0 THEN NullMove ELSE moves[Len(moves)]]

(* the search of move for pointTo among the moves at pointFrom *)
findMove(moves, pointTo) ==
  LET hits == {i \in 1..Len(moves) : equals(moves[i].to, pointTo)}
  IN  IF hits # {}
      THEN [isValid |-> TRUE,
            move |-> moves[CHOOSE i \in hits : \A i2 \in hits : i <= i2]]
      ELSE [isValid |-> FALSE,
            move |-> IF Len(moves) = 0 THEN NullMove ELSE moves[Len(moves)]]

(* move(pointFrom, pointTo, promotionCode): the engine after the call and *)
(* what the call returned                                                *)
moveOutcome(pointFrom, pointTo, promotionCode) ==
  LET unchanged(m) ==
        [grid |-> grid, pieces |-> pieces, moveArray |-> moveArray,
         playingColor |-> playingColor, takenPiece |-> takenPiece,
         lastMove |-> lastMove, isGameOver |-> isGameOver,
         success |-> FALSE, move |-> m, threw |-> NoError]
  IN  IF isGameOver THEN unchanged(UndefinedMove)
      ELSE LET found == findMove(getMovesAtPoint(pointFrom), pointTo)
           IN  IF found.isValid THEN resolveMove(found.move, promotionCode)
               ELSE unchanged(found.move)

-----------------------------------------------------------------------------
(* Layouts passed to init.  A layout lists size codes in row-major order; *)
(* entry x + y * width (counted from 0) is the square (x, y), and y = 0 is *)
(* Black's back rank in the standard layout.                              *)
wp == <<"w", "p">>
wr == <<"w", "r">>
wn == <<"w", "n">>
wb == <<"w", "b">>
wk == <<"w", "k">>
wq == <<"w", "q">>
bp == <<"b", "p">>
br == <<"b", "r">>
bn == <<"b", "n">>
bb == <<"b", "b">>
bk == <<"b", "k">>
bq == <<"b", "q">>
blank == <<" ", " ">>

(* the layout of the application *)
layout ==
  <<br, bn, bb, bq, bk, bb, bn, br,
    bp, bp, bp, bp, bp, bp, bp, bp,
    blank, blank, blank, blank, blank, blank, blank, blank,
    blank, blank, blank, blank, blank, blank, blank, blank,
    blank, blank, blank, blank, blank, blank, blank, blank,
    blank, blank, blank, blank, blank, blank, blank, blank,
    wp, wp, wp, wp, wp, wp, wp, wp,
    wr, wn, wb, wq, wk, wb, wn, wr>>

(* a layout with the given codes on the given squares and blanks elsewhere *)
sq(px, py) == px + py * BOARD_SQUARES_WIDTH
layoutOf(placed) ==
  [i \in 1..(BOARD_SQUARES_WIDTH * BOARD_SQUARES_HEIGHT) |->
     IF (i - 1) \in DOMAIN placed THEN placed[i - 1] ELSE blank]

(* the white pawn e2 may advance two squares and land next to the black    *)
(* pawn d4                                                                *)
enPassantLayout ==
  layoutOf(sq(7, 7) :> wk @@ sq(4, 6) :> wp @@ sq(0, 0) :> bk @@ sq(3, 4) :> bp)

(* as enPassantLayout, with the black king on f5, where the white pawn *)
(* gives check once it stands on e4                                    *)
enPassantCheckLayout ==
  layoutOf(sq(7, 7) :> wk @@ sq(4, 6) :> wp @@ sq(5, 3) :> bk @@ sq(3, 4) :> bp)

(* White (king e1, rook h1) may castle *)
castleLayout ==
  layoutOf(sq(4, 7) :> wk @@ sq(7, 7) :> wr @@ sq(7, 6) :> wp @@ sq(0, 0) :> bk)

(* the white king at home with a black rook on h1 *)
enemyRookLayout ==
  layoutOf(sq(4, 7) :> wk @@ sq(7, 7) :> br @@ sq(0, 0) :> bk)

(* king and rook at home, with a black knight on h2 that attacks f1 *)
castleAttackedLayout ==
  layoutOf(sq(4, 7) :> wk @@ sq(7, 7) :> wr @@ sq(7, 6) :> bn @@
           sq(0, 0) :> bk)

(* as castleLayout, with a black pawn on d2 that gives check to the king *)
pawnCheckLayout ==
  layoutOf(sq(4, 7) :> wk @@ sq(7, 7) :> wr @@ sq(7, 6) :> wp @@
           sq(0, 0) :> bk @@ sq(3, 6) :> bp)

(* as castleLayout, with a black pawn on e3, two squares ahead of the king *)
pawnAheadLayout ==
  layoutOf(sq(4, 7) :> wk @@ sq(7, 7) :> wr @@ sq(7, 6) :> wp @@
           sq(0, 0) :> bk @@ sq(4, 5) :> bp)

(* Black (king e8, rook a8) may castle once White has moved *)
blackCastleLayout ==
  layoutOf(sq(4, 0) :> bk @@ sq(0, 0) :> br @@ sq(0, 1) :> bp @@ sq(7, 7) :> wk)

(* mate in one: the white pawn g6 advances to g7, covered by the king f7 *)
mateLayout ==
  layoutOf(sq(5, 1) :> wk @@ sq(6, 2) :> wp @@ sq(7, 0) :> bk @@ sq(7, 1) :> bp)

(* the white king on d1, a step from where it may castle with the rook h1; *)
(* the pawn h2 stands behind the pawn h3                                  *)
kingAsideLayout ==
  layoutOf(sq(3, 7) :> wk @@ sq(7, 7) :> wr @@ sq(7, 6) :> wp @@
           sq(7, 5) :> wp @@ sq(0, 0) :> bk)

(* a white pawn on g7, one step from the farthest rank *)
promotionLayout ==
  layoutOf(sq(7, 7) :> wk @@ sq(6, 1) :> wp @@ sq(0, 0) :> bk)

(* for the board of width 4 and height 4: a black pawn on c2, one step *)
(* from its farthest rank                                             *)
smallLayout ==
  <<blank, blank, blank, bk,
    blank, blank, blank, blank,
    blank, blank, bp,    blank,
    wk,    blank, blank, blank>>

(* for the board of width 3 and height 2 *)
wideLayout ==
  <<bk,    blank, wr,
    blank, blank, wk>>

(* sliding pieces with open lines: the white queen d4, bishop c1 and rook *)
(* a1, the black bishop g7 and rook a5; the white pawn f4 and the black   *)
(* pawn d7 stand on lines of the queen; the black knight e6 attacks the   *)
(* queen and the pawn f4                                                  *)
slidersLayout ==
  layoutOf(sq(7, 7) :> wk @@ sq(0, 0) :> bk @@ sq(3, 4) :> wq @@
           sq(2, 7) :> wb @@ sq(0, 7) :> wr @@ sq(5, 4) :> wp @@
           sq(3, 1) :> bp @@ sq(6, 1) :> bb @@ sq(0, 3) :> br @@
           sq(4, 2) :> bn)

(* a black pawn on g2, one step from its farthest rank *)
blackPromotionLayout ==
  layoutOf(sq(0, 7) :> wk @@ sq(6, 6) :> bp @@ sq(0, 0) :> bk)

(* stalemate at the start: the white king a1 has no square to go to, the *)
(* black queen b3 covering a2, b1 and b2                                 *)
stalemateLayout ==
  layoutOf(sq(0, 7) :> wk @@ sq(1, 5) :> bq @@ sq(7, 0) :> bk)

(* a layout of the wrong length *)
shortLayout == <<wk, bk>>

Layouts ==
  {layout, enPassantLayout, enPassantCheckLayout, castleLayout,
   enemyRookLayout, castleAttackedLayout, pawnCheckLayout, pawnAheadLayout,
   blackCastleLayout, mateLayout, kingAsideLayout, promotionLayout,
   blackPromotionLayout, slidersLayout, stalemateLayout, smallLayout,
   wideLayout, shortLayout}

(* the layouts with many pieces, from which MaxOpening moves are explored *)
Openings == {layout, slidersLayout}

(* promotion codes passed to move *)
PromotionCodes == {NoCode, wn}

-----------------------------------------------------------------------------
(* The state machine *)

(* pointTo is the destination of a move of the index entry of pointFrom *)
listed(pointFrom, pointTo) ==
  LET i == pointFrom.x + pointFrom.y * width
  IN  /\ i \in DOMAIN moveArray
      /\ \E j \in 1..Len(moveArray[i]) : moveArray[i][j].to = pointTo

(* ret: the call, whether pointTo was listed at pointFrom when it was     *)
(* made, the success and the move it returned (for a call that threw, the *)
(* move it had half applied), the error it threw, the promotion code and  *)
(* the layout it was given and, for init, whether a move had been applied *)
(* since the engine was constructed or last initialised                   *)
Returned(op, o, isListed, promotionCode, l) ==
  [op |-> op, listed |-> isListed, success |-> o.success, threw |-> o.threw,
   move |-> o.move, promotionCode |-> promotionCode, layout |-> l,
   from |-> NoPoint, to |-> NoPoint,
   value |-> (op = "init" /\ lastMove # NullMove), list |-> <<>>,
   again |-> FALSE]

(* ret for a query: its name, the points it was asked about, the boolean *)
(* or the array it returned and whether the call before it was the same *)
(* query                                                               *)
Answered(op, from, to, value, list) ==
  [op |-> op, listed |-> FALSE, success |-> TRUE, threw |-> NoError,
   move |-> NullMove, promotionCode |-> NoCode, layout |-> <<>>,
   from |-> from, to |-> to, value |-> value, list |-> list,
   again |-> (ret.op = op /\ ret.from = from /\ ret.to = to)]

(* no layout passed: the call was not init *)
NoLayout == <<>>

(* the pieces a successful move has moved since the latest init, after the *)
(* call op with outcome o: move sets moved on the moving piece and, for a  *)
(* castle, on the rook; init constructs every piece anew                   *)
Moved(op, o) ==
  IF op = "init" THEN IF o.threw = NoError THEN {} ELSE movedOnce
  ELSE IF ~o.success THEN movedOnce
  ELSE movedOnce \cup {o.move.piece}
         \cup (IF o.move.moveType = CASTLE THEN {o.move.rook} ELSE {})

(* null, as the value of a square number *)
Null == -1

(* undefined, the square number of a pointer outside the board *)
Undefined == -2

(* UserInterface.constructor, with the state of the two overlays it owns: *)
(* the promotion window holds options for promotionSquare in the colour   *)
(* promotionColor once #openPromotionWindow has filled it, and the rematch *)
(* button of the game-over modal has its listener while gameOverModal     *)
UserInterface ==
  [selected |-> Null, hadSelected |-> FALSE, hadSelectedSquareNumber |-> Null,
   waitingForPromotion |-> FALSE, isDragging |-> FALSE, flipped |-> FALSE,
   undraggableSquares |-> {}, promotionSquare |-> Null, promotionColor |-> "",
   gameOverModal |-> FALSE]

(* after new ChessEngine(w, h) *)
Init ==
  /\ \E args \in ConstructorArgs :
       /\ width = constructed(args[1], args[2]).width
       /\ height = constructed(args[1], args[2]).height
       /\ grid = [i \in 0..(constructed(args[1], args[2]).width
                             * constructed(args[1], args[2]).height - 1) |-> None]
  /\ pieces = <<>>
  /\ moveArray = <<>>
  /\ playingColor = WHITE
  /\ takenPiece = None
  /\ lastMove = NullMove
  /\ isGameOver = TRUE
  /\ ret = [op |-> "new", listed |-> FALSE, success |-> TRUE, threw |-> NoError,
            move |-> NullMove, promotionCode |-> NoCode, layout |-> NoLayout,
            from |-> NoPoint, to |-> NoPoint, value |-> FALSE, list |-> <<>>,
            again |-> FALSE]
  /\ movedOnce = {}
  /\ nMoves = 0
  /\ nCoded = 0
  /\ ui = UserInterface
  /\ dom = <<>>
  /\ timers = {}
  /\ pointerDown = FALSE
  /\ event = [type |-> "none", squareNumber |-> Undefined, onSelected |-> FALSE]
  /\ plan = <<>>

Apply(o) ==
  /\ UNCHANGED <<width, height>>
  /\ grid' = o.grid
  /\ pieces' = o.pieces
  /\ moveArray' = o.moveArray
  /\ playingColor' = o.playingColor
  /\ takenPiece' = o.takenPiece
  /\ lastMove' = o.lastMove
  /\ isGameOver' = o.isGameOver

(* the calls counted against MaxMoves after the call op with outcome o: a *)
(* call that threw leaves MaxAfterThrow further calls, and init with the  *)
(* application's layout leaves MaxOpening calls                           *)
Counted(op, o, resolved, l) ==
  IF op = "init"
  THEN IF o.threw # NoError THEN nMoves
       ELSE IF l \in Openings /\ MaxOpening < MaxMoves THEN MaxMoves - MaxOpening
       ELSE 0
  ELSE IF ~resolved THEN nMoves
  ELSE IF o.threw # NoError /\ nMoves + 1 < MaxMoves - MaxAfterThrow
  THEN MaxMoves - MaxAfterThrow
  ELSE nMoves + 1

(* the queries *)
Queries == {"getMovesAtPoint", "isPromotion", "getState", "isGameOver"}

(* a call on the engine with outcome o.  A query leaves every field as it *)
(* was, so a call made after queries does what it does without them: the *)
(* calls are explored from the states that calls have reached.           *)
Call(op, o, isListed, resolved, promotionCode, l) ==
  /\ ret.op \notin Queries
  /\ Apply(o)
  /\ ret' = Returned(op, o, isListed, promotionCode, l)
  /\ movedOnce' = Moved(op, o)
  /\ nMoves' = Counted(op, o, resolved, l)
  /\ nCoded' = IF op = "init" THEN IF o.threw = NoError THEN 0 ELSE nCoded
                ELSE IF promotionCode # NoCode THEN nCoded + 1 ELSE nCoded
  /\ UNCHANGED <<ui, dom, timers, pointerDown, event, plan>>

(* engine.init(l); the application calls it at start-up and for a rematch, *)
(* which is offered once the game is over                                  *)
init(l) ==
  /\ isGameOver
  /\ Call("init", initOutcome(l), FALSE, FALSE, NoCode, l)

(* engine.move(pointFrom, pointTo, promotionCode) *)
move(pointFrom, pointTo, promotionCode) ==
  /\ (~isGameOver /\ listed(pointFrom, pointTo)) => nMoves < MaxMoves
  /\ promotionCode # NoCode =>
       ~isGameOver /\ listed(pointFrom, pointTo) /\ nCoded < MaxCoded
  /\ Call("move", moveOutcome(pointFrom, pointTo, promotionCode),
          listed(pointFrom, pointTo),
          ~isGameOver /\ listed(pointFrom, pointTo), promotionCode, NoLayout)

(* a query: getMovesAtPoint, isPromotion, getState and isGameOver assign *)
(* to no field.  The queries are explored from the states calls have    *)
(* reached, each followed by its own repetition.                        *)
Query(op, from, to, value, list) ==
  /\ nMoves <= MaxProbed
  /\ ret.op \in Queries => (ret.op = op /\ ret.from = from /\ ret.to = to)
  /\ ret' = Answered(op, from, to, value, list)
  /\ UNCHANGED <<width, height, engineVars, movedOnce, nMoves, nCoded>>
  /\ UNCHANGED <<ui, dom, timers, pointerDown, event, plan>>

(* The points move is called with.  A call whose pointTo is not listed at   *)
(* pointFrom takes the same path whatever the two points are, so these     *)
(* calls are tried from the squares that hold a piece or an index entry    *)
(* and from the probe points, towards the probe points; every listed       *)
(* destination is tried.                                                  *)
ProbePoints == {Point(0, 2)}

Sources ==
  (ProbePoints \cap Points) \cup
  {p \in Points : \/ valueAt(grid, p) # None
                  \/ /\ (p.x + p.y * width) \in DOMAIN moveArray
                     /\ moveArray[p.x + p.y * width] # <<>>}

Targets(pointFrom) ==
  LET i == pointFrom.x + pointFrom.y * width
  IN  (ProbePoints \cap Points) \cup
      (IF i \in DOMAIN moveArray
       THEN {moveArray[i][j].to : j \in 1..Len(moveArray[i])} ELSE {})

Next ==
  \/ (ret.op \notin Queries /\ isGameOver) /\ \E l \in Layouts : init(l)
  \/ ret.op \notin Queries
       /\ \E pointFrom \in Sources : \E pointTo \in Targets(pointFrom) :
            \E promotionCode \in PromotionCodes :
              move(pointFrom, pointTo, promotionCode)
  \/ \E point \in Sources :
       /\ (point.x + point.y * width) \in DOMAIN moveArray
       /\ Query("getMovesAtPoint", point, NoPoint, FALSE, getMovesAtPoint(point))
  \/ \E from \in Sources : \E to \in Targets(from) :
       Query("isPromotion", from, to, isPromotion(from, to), <<>>)
  \/ Query("getState", NoPoint, NoPoint, FALSE, getState)
  \/ Query("isGameOver", NoPoint, NoPoint, isGameOver, <<>>)

Spec == Init /\ [][Next]_vars

-----------------------------------------------------------------------------
(* Properties of the engine. *)

(* legalMovesAt is empty for every square *)
IndexEmpty == \A i \in DOMAIN moveArray : moveArray[i] = <<>>

(* init has populated the board and built the index *)
Initialised == moveArray # <<>>

(* the moves listed in the index at point p, as a set *)
movesAt(p) ==
  {getMovesAtPoint(p)[j] : j \in 1..Len(getMovesAtPoint(p))}

(* a piece of colour color stands on p *)
holds(p, color) ==
  valueAt(grid, p) # None /\ pieces[valueAt(grid, p)].color = color

(* C1: a call of move made while the game is over, or for a destination  *)
(* that no move listed at pointFrom has (pointFrom empty or holding a    *)
(* piece of the side not to move included), returns success = false and  *)
(* leaves the board, the moved flags, the side to move, the last move,   *)
(* the index and the game-over flag as they were.                        *)
C1_FailsClosed ==
  [][(ret'.op = "move" /\ (isGameOver \/ ~ret'.listed))
       => (~ret'.success /\ ret'.threw = NoError /\ UNCHANGED engineVars)]_vars

(* a call for an unlisted destination has failed in a game in progress *)
C1_Witness ==
  /\ ret.op = "move" /\ ~ret.listed /\ ~ret.success
  /\ ~isGameOver /\ lastMove # NullMove

(* C2: in every state reached through init and move calls, whatever     *)
(* they returned or threw, the index entry of every square equals the   *)
(* legality-filtered candidate moves computed from the current board,   *)
(* side to move and last move.                                          *)
C2_IndexNeverStale ==
  Initialised =>
    moveArray = precomputeMoves(grid, takenPiece, pieces, playingColor,
                                lastMove).moveArray

(* a call has thrown after changing the board *)
C2_Witness ==
  ret.op = "move" /\ ret.threw = "Trying to promote non-pawn piece."

(* the king of colour color is on the board g and no capturing move of *)
(* an enemy piece lands on its square                                  *)
kingSafe(g, color) ==
  LET kings == {k \in Points : /\ valueAt(g, k) # None
                               /\ pieces[valueAt(g, k)].kind = KING
                               /\ pieces[valueAt(g, k)].color = color}
      lands(e, k) ==
        \E j \in 1..Len(pieceMove(valueAt(g, e), e, g, pieces, lastMove)) :
          /\ pieceMove(valueAt(g, e), e, g, pieces, lastMove)[j].moveType = CAPTURE
          /\ pieceMove(valueAt(g, e), e, g, pieces, lastMove)[j].to = k
  IN  /\ kings # {}
      /\ \A k \in kings : \A e \in Points :
           (valueAt(g, e) # None /\ pieces[valueAt(g, e)].color # color)
             => ~lands(e, k)

(* C3: a plain or capturing candidate move of a piece of the side to   *)
(* move is in the index iff, on the board obtained by applying it, a   *)
(* king of the mover's colour exists and no capturing candidate move   *)
(* of the enemy lands on that king's square.                           *)
C3_LegalIffKingSafe ==
  Initialised =>
    \A p \in Points : holds(p, playingColor) =>
      \A j \in 1..Len(pieceMove(valueAt(grid, p), p, grid, pieces, lastMove)) :
        LET m == pieceMove(valueAt(grid, p), p, grid, pieces, lastMove)[j]
        IN  m.moveType \in {MOVE, CAPTURE} =>
              (m \in movesAt(p)
                 <=> kingSafe(step(grid, takenPiece, m).grid, playingColor))

(* a legal move exists beside a candidate that leaves the king attacked *)
C3_Witness ==
  /\ Initialised /\ ~IndexEmpty
  /\ \E p \in Points : holds(p, playingColor) /\
       \E j \in 1..Len(pieceMove(valueAt(grid, p), p, grid, pieces, lastMove)) :
         /\ pieceMove(valueAt(grid, p), p, grid, pieces, lastMove)[j].moveType = MOVE
         /\ pieceMove(valueAt(grid, p), p, grid, pieces, lastMove)[j]
              \notin movesAt(p)

(* the piece on square from attacks the square target: a pawn attacks   *)
(* its two forward diagonals, any other piece the squares its moves     *)
(* reach                                                               *)
attacks(from, target) ==
  IF pieces[valueAt(grid, from)].kind = PAWN
  THEN \E i \in 1..2 :
         equals(add(from, PawnCapturingDirections(
                            pieces[valueAt(grid, from)].color)[i]), target)
  ELSE \E j \in 1..Len(pieceMove(valueAt(grid, from), from, grid, pieces, lastMove)) :
         LET e == pieceMove(valueAt(grid, from), from, grid, pieces, lastMove)[j]
         IN  e.moveType \in {MOVE, CAPTURE} /\ equals(e.to, target)

(* a piece that is not of colour color attacks the square target *)
attacked(target, color) ==
  \E from \in Points :
    /\ valueAt(grid, from) # None
    /\ pieces[valueAt(grid, from)].color # color
    /\ attacks(from, target)

(* C4: no castle move is in the index while an enemy piece of any kind, *)
(* pawn included, attacks the king's start square, the square the king  *)
(* crosses or the king's destination.                                  *)
C4_NoCastleUnderAttack ==
  Initialised =>
    \A p \in Points : \A m \in movesAt(p) :
      m.moveType = CASTLE =>
        \A i \in 1..Len(kingPositions(m)) :
          ~attacked(kingPositions(m)[i], pieces[m.piece].color)

(* a castle move is listed for a king that a pawn gives check to *)
C4_Witness ==
  /\ Initialised
  /\ \E p \in Points : \E m \in movesAt(p) :
       /\ m.moveType = CASTLE
       /\ \E from \in Points :
            /\ valueAt(grid, from) # None
            /\ pieces[valueAt(grid, from)].kind = PAWN
            /\ pieces[valueAt(grid, from)].color # pieces[m.piece].color
            /\ attacks(from, m.from)

(* C5: a successful move sets the game-over flag iff the rebuilt index  *)
(* is empty on every square; once the game is over it stays over, the   *)
(* index stays empty and every call of move fails, until init is called *)
(* again.                                                              *)
C5_GameOver ==
  [][/\ (ret'.op = "move" /\ ret'.success) => (isGameOver' <=> IndexEmpty')
     /\ (isGameOver /\ ~(ret'.op = "init" /\ ret'.success))
          => (isGameOver' /\ IndexEmpty' /\ (ret'.op = "move" => ~ret'.success))]_vars

(* a call of move has failed after the mating move *)
C5_Witness ==
  /\ isGameOver /\ Initialised /\ lastMove # NullMove
  /\ ret.op = "move" /\ ~ret.success

(* C6: after init the side to move is White; a successful move moves a  *)
(* piece of the side to move, records the move as last move and flips  *)
(* the side to move; a failed move changes neither the side to move    *)
(* nor the last move.                                                  *)
C6_Alternation ==
  [][/\ (ret'.op = "init" /\ ret'.success)
          => (playingColor' = WHITE /\ lastMove' = NullMove)
     /\ (ret'.op = "move" /\ ret'.success)
          => /\ pieces[ret'.move.piece].color = playingColor
             /\ lastMove' = ret'.move
             /\ playingColor' = IF playingColor = WHITE THEN BLACK ELSE WHITE
     /\ (ret'.op = "move" /\ ~ret'.success)
          => UNCHANGED <<playingColor, lastMove>>]_vars

(* Black has answered White's move *)
C6_Witness ==
  /\ ret.op = "move" /\ ret.success /\ playingColor = WHITE
  /\ pieces[lastMove.piece].color = BLACK

(* C7: the index entry of every square that is empty or holds a piece   *)
(* of the side not to move is the empty sequence.                      *)
C7_IndexEmptyElsewhere ==
  Initialised =>
    \A p \in Points : ~holds(p, playingColor) => getMovesAtPoint(p) = <<>>

(* moves are listed for a piece of the side to move, none elsewhere yet *)
C7_Witness ==
  /\ Initialised /\ ~IndexEmpty /\ playingColor = BLACK
  /\ \E p \in Points : holds(p, WHITE)

(* C8: a successful en passant move leaves the capturing pawn on its   *)
(* destination and the square captureAt empty, so that the captured    *)
(* pawn is no longer on the board.                                     *)
C8_EnPassantRemoves ==
  (ret.op = "move" /\ ret.success /\ ret.move.moveType = EN_PASSANT) =>
    /\ valueAt(grid, ret.move.to) = ret.move.piece
    /\ ret.move.captureAt # ret.move.to
    /\ valueAt(grid, ret.move.captureAt) = None

(* an en passant move has been applied *)
C8_Witness ==
  ret.op = "move" /\ ret.success /\ ret.move.moveType = EN_PASSANT

(* the en passant moves among the candidate moves of the pawn on p *)
enPassantMoves(p) ==
  {PawnMove(valueAt(grid, p), p, grid, pieces, lastMove)[j] :
     j \in {j \in 1..Len(PawnMove(valueAt(grid, p), p, grid, pieces, lastMove)) :
              PawnMove(valueAt(grid, p), p, grid, pieces, lastMove)[j].moveType
                = EN_PASSANT}}

(* the last move was a pawn of colour color advancing two squares       *)
(* straight onto a square laterally adjacent to p                      *)
doubleStepBeside(p, color) ==
  /\ lastMove.piece # None
  /\ pieces[lastMove.piece].kind = PAWN
  /\ pieces[lastMove.piece].color = color
  /\ lastMove.moveType = MOVE
  /\ lastMove.from.x = lastMove.to.x
  /\ lastMove.from.y - lastMove.to.y \in {-2, 2}
  /\ lastMove.to.y = p.y
  /\ lastMove.to.x - p.x \in {-1, 1}

(* the square a straight two-square move m skipped *)
skipped(m) == Point(m.to.x, (m.from.y + m.to.y) \div 2)

(* C9: the candidate moves of a pawn contain an en passant move iff the *)
(* last move applied was an enemy pawn advancing two squares straight  *)
(* onto a square laterally adjacent to the pawn; the move goes to the  *)
(* square the enemy pawn skipped and its captureAt is the enemy pawn's *)
(* square.  En passant is therefore offered only in the position that  *)
(* follows the double step.                                            *)
C9_EnPassantOffered ==
  \A p \in Points :
    (valueAt(grid, p) # None /\ pieces[valueAt(grid, p)].kind = PAWN) =>
      enPassantMoves(p) =
        IF \E color \in {WHITE, BLACK} :
             color # pieces[valueAt(grid, p)].color /\ doubleStepBeside(p, color)
        THEN {EnpassantMove(valueAt(grid, p), EN_PASSANT, p,
                            skipped(lastMove), lastMove.to)}
        ELSE {}

(* a pawn is offered an en passant move *)
C9_Witness ==
  \E p \in Points :
    /\ valueAt(grid, p) # None
    /\ pieces[valueAt(grid, p)].kind = PAWN
    /\ enPassantMoves(p) # {}

(* the king of the side to move on p and the rook n squares away in    *)
(* the direction are unmoved, nothing stands between them and none of  *)
(* the three squares of the king is attacked                           *)
castleReady(p, direction, n) ==
  /\ holds(p, playingColor)
  /\ pieces[valueAt(grid, p)].kind = KING
  /\ ~pieces[valueAt(grid, p)].moved
  /\ isInside(Point(p.x + n * direction.x, p.y))
  /\ holds(Point(p.x + n * direction.x, p.y), playingColor)
  /\ pieces[valueAt(grid, Point(p.x + n * direction.x, p.y))].kind = ROOK
  /\ ~pieces[valueAt(grid, Point(p.x + n * direction.x, p.y))].moved
  /\ \A i \in 1..(n - 1) : valueAt(grid, Point(p.x + i * direction.x, p.y)) = None
  /\ \A i \in 0..2 : ~attacked(Point(p.x + i * direction.x, p.y), playingColor)

(* C10: with king and rook unmoved, every square between them empty and *)
(* none of the king's three squares attacked, a castle move is listed   *)
(* for the king; a castle move that is applied puts the king two        *)
(* squares towards the rook and the rook on the square the king         *)
(* crossed, empties both start squares and sets moved on king and rook. *)
C10_CastleOfferedAndApplied ==
  /\ Initialised =>
       \A p \in Points : \A direction \in {Point(-1, 0), Point(1, 0)} :
         \A n \in 3..(width - 1) :
           castleReady(p, direction, n) =>
             CastleMove(valueAt(grid, p), CASTLE, p,
                        Point(p.x + 2 * direction.x, p.y),
                        valueAt(grid, Point(p.x + n * direction.x, p.y)),
                        Point(p.x + n * direction.x, p.y),
                        Point(p.x + direction.x, p.y)) \in movesAt(p)
  /\ (ret.op = "move" /\ ret.success /\ ret.move.moveType = CASTLE) =>
       /\ valueAt(grid, ret.move.to) = ret.move.piece
       /\ valueAt(grid, ret.move.rookTo) = ret.move.rook
       /\ valueAt(grid, ret.move.from) = None
       /\ valueAt(grid, ret.move.rookFrom) = None
       /\ pieces[ret.move.piece].moved
       /\ pieces[ret.move.rook].moved

(* king and rook are ready to castle, no king square is attacked, and   *)
(* no castle move is listed                                            *)
C10_Witness ==
  /\ Initialised
  /\ \E p \in Points : \E direction \in {Point(-1, 0), Point(1, 0)} :
       \E n \in 3..(width - 1) :
         /\ castleReady(p, direction, n)
         /\ \A m \in movesAt(p) : m.moveType # CASTLE

(* C11: a king that a successful move has moved (castling included) is  *)
(* never again the king of a listed castle move, and a rook that a      *)
(* successful move has moved is never the rook of one, until the next   *)
(* init.                                                               *)
C11_CastlingRightsLost ==
  Initialised =>
    \A p \in Points : \A m \in movesAt(p) :
      m.moveType = CASTLE => (m.piece \notin movedOnce /\ m.rook \notin movedOnce)

(* it is the turn of a king that has moved and now stands in line with *)
(* an unmoved rook of its colour, three or more squares away, with     *)
(* nothing between them                                                *)
C11_Witness ==
  /\ Initialised /\ ~isGameOver
  /\ \E p \in Points : \E direction \in {Point(-1, 0), Point(1, 0)} :
       \E n \in 3..(width - 1) :
         /\ holds(p, playingColor)
         /\ pieces[valueAt(grid, p)].kind = KING
         /\ valueAt(grid, p) \in movedOnce
         /\ isInside(Point(p.x + n * direction.x, p.y))
         /\ holds(Point(p.x + n * direction.x, p.y), playingColor)
         /\ pieces[valueAt(grid, Point(p.x + n * direction.x, p.y))].kind = ROOK
         /\ ~pieces[valueAt(grid, Point(p.x + n * direction.x, p.y))].moved
         /\ \A i \in 1..(n - 1) :
              valueAt(grid, Point(p.x + i * direction.x, p.y)) = None

(* the move m took a pawn to the farthest rank: the last rank in the    *)
(* pawn's direction of travel                                          *)
toFarthestRank(m) ==
  /\ pieces[m.piece].kind = PAWN
  /\ ~isInside(add(m.to, PawnDirection(pieces[m.piece].color)))

(* C12: after a successful move called with a promotion code, of a pawn *)
(* landing on the farthest rank, the destination holds a piece of the   *)
(* kind the code names, that piece has moved = true and the pawn is on  *)
(* no square of the board.                                             *)
C12_PromotionReplacesPawn ==
  (ret.op = "move" /\ ret.success /\ ret.promotionCode # NoCode
     /\ toFarthestRank(ret.move)) =>
    /\ valueAt(grid, ret.move.to) # None
    /\ pieces[valueAt(grid, ret.move.to)].kind = pieceFromCode(ret.promotionCode).kind
    /\ pieces[valueAt(grid, ret.move.to)].moved
    /\ \A p \in Points : valueAt(grid, p) # ret.move.piece

(* a pawn has moved to the farthest rank in a call with a promotion code *)
C12_Witness ==
  /\ ret.op = "move" /\ ret.success /\ ret.promotionCode # NoCode
  /\ toFarthestRank(ret.move)

(* C13: the pawn is replaced only on the farthest rank: after a         *)
(* successful move called with a promotion code, of a pawn landing on   *)
(* any other rank, the destination still holds that pawn.               *)
C13_PromotionOnlyOnFarthestRank ==
  (ret.op = "move" /\ ret.success /\ ret.promotionCode # NoCode
     /\ pieces[ret.move.piece].kind = PAWN /\ ~toFarthestRank(ret.move)) =>
    valueAt(grid, ret.move.to) = ret.move.piece

(* a pawn has moved to a rank short of the farthest in a call with a    *)
(* promotion code                                                      *)
C13_Witness ==
  /\ ret.op = "move" /\ ret.success /\ ret.promotionCode # NoCode
  /\ pieces[ret.move.piece].kind = PAWN /\ ~toFarthestRank(ret.move)

(* C14: a call of move with a promotion code whose listed move is of a  *)
(* piece other than a pawn throws, whatever the kind of the piece and   *)
(* of the move (plain, capture or castle); it never returns success.    *)
C14_PromotionOfNonPawnThrows ==
  (ret.op = "move" /\ ret.listed /\ ret.promotionCode # NoCode
     /\ pieces[ret.move.piece].kind # PAWN) =>
    (ret.threw # NoError /\ ~ret.success)

(* a castle move was resolved in a call with a promotion code *)
C14_Witness ==
  /\ ret.op = "move" /\ ret.listed /\ ret.promotionCode # NoCode
  /\ ret.move.moveType = CASTLE

(* C15: isPromotion(from, to) is true iff from holds a pawn of the side *)
(* to move, to lies on the last rank in that pawn's direction of travel *)
(* on the board the engine was constructed with, and to is the          *)
(* destination of a move listed at from; it is false otherwise.         *)
C15_IsPromotion ==
  ret.op = "isPromotion" =>
    (ret.value <=>
       /\ holds(ret.from, playingColor)
       /\ pieces[valueAt(grid, ret.from)].kind = PAWN
       /\ ~isInside(add(ret.to, PawnDirection(playingColor)))
       /\ \E m \in movesAt(ret.from) : m.to = ret.to)

(* isPromotion has answered for a listed move of a pawn to the last rank *)
(* in its direction of travel                                           *)
C15_Witness ==
  /\ ret.op = "isPromotion"
  /\ holds(ret.from, playingColor)
  /\ pieces[valueAt(grid, ret.from)].kind = PAWN
  /\ ~isInside(add(ret.to, PawnDirection(playingColor)))
  /\ \E m \in movesAt(ret.from) : m.to = ret.to

(* C16: init called with a layout whose length is not width * height    *)
(* throws, and the board, the pieces, the side to move, the last move,  *)
(* the game-over flag and the index are as before the call.             *)
C16_InitRejectsWrongLength ==
  [][(ret'.op = "init" /\ Len(ret'.layout) # size) =>
       (ret'.threw # NoError /\ ~ret'.success /\ UNCHANGED engineVars)]_vars

(* init has thrown for the length of its layout on an engine that a game *)
(* has been played on                                                   *)
C16_Witness ==
  /\ ret.op = "init" /\ ret.threw = "Invalid plan size"
  /\ Initialised /\ lastMove # NullMove /\ playingColor = BLACK

(* init(l) on an engine just constructed with this width and height *)
firstInit(l) ==
  initialised(precomputeMoves(populate([i \in 0..(size - 1) |-> None], l), None,
                              layoutPieces(l), WHITE, NullMove),
              layoutPieces(l))

destinationsAt(p) == {m.to : m \in movesAt(p)}

(* init has just succeeded with the standard starting layout *)
startingPosition == ret.op = "init" /\ ret.success /\ ret.layout = layout

(* C18: immediately after init with the standard 8x8 starting layout,   *)
(* the index lists exactly 2 destinations for every pawn and every      *)
(* knight of White, the side to move, and none for every other piece:   *)
(* White's rooks, bishops, queen and king and every piece of Black.     *)
C18_StartingPosition ==
  startingPosition =>
    \A p \in Points :
      valueAt(grid, p) # None =>
        Cardinality(destinationsAt(p)) =
          (IF /\ pieces[valueAt(grid, p)].color = WHITE
              /\ pieces[valueAt(grid, p)].kind \in {PAWN, KNIGHT}
           THEN 2 ELSE 0)

(* C18 as stated: exactly 2 destinations for every pawn and every knight *)
(* of either colour, none for every rook, bishop, queen and king        *)
C18_EveryPawnAndKnight ==
  startingPosition =>
    \A p \in Points :
      valueAt(grid, p) # None =>
        Cardinality(destinationsAt(p)) =
          (IF pieces[valueAt(grid, p)].kind \in {PAWN, KNIGHT} THEN 2 ELSE 0)

(* init has succeeded with the standard starting layout: 32 pieces stand *)
(* on the board, 16 pawns and 4 knights among them                       *)
C18_Witness ==
  /\ startingPosition
  /\ Cardinality({p \in Points : valueAt(grid, p) # None}) = 32
  /\ Cardinality({p \in Points : /\ valueAt(grid, p) # None
                                 /\ pieces[valueAt(grid, p)].kind = PAWN}) = 16
  /\ Cardinality({p \in Points : /\ valueAt(grid, p) # None
                                 /\ pieces[valueAt(grid, p)].kind = KNIGHT}) = 4

codedBy(l, i) ==
  IF pieceFromCode(l[i + 1]) = UndefinedPiece THEN None ELSE i + 1

(* C20: on every board the constructor builds, storing a value at an      *)
(* in-bounds point leaves the value at every other in-bounds point as it  *)
(* was, and right after a successful init(layout) the point               *)
(* (i mod width, i div width) holds the piece coded by layout[i], for     *)
(* every index i.                                                         *)
C20_IndependentSlots ==
  /\ \A c1 \in Points : \A c2 \in Points \ {c1} : \A v \in {None, 1} :
       valueAt(setValueAt(grid, c1, v), c2) = valueAt(grid, c2)
  /\ (ret.op = "init" /\ ret.success) =>
       \A i \in 0..(size - 1) :
         valueAt(grid, Point(i % width, i \div width)) = codedBy(ret.layout, i)

(* init has succeeded on a board whose width and height differ, with a *)
(* layout that codes a piece for the last point of the first row       *)
C20_Witness ==
  /\ ret.op = "init" /\ ret.success
  /\ width # height
  /\ codedBy(ret.layout, width - 1) # None

(* the candidate moves of the piece on p, as a set: what piece.move *)
(* returns for the current board and last move                      *)
candidatesAt(p) ==
  {pieceMove(valueAt(grid, p), p, grid, pieces, lastMove)[j] :
     j \in 1..Len(pieceMove(valueAt(grid, p), p, grid, pieces, lastMove))}

(* every in-bounds point has in g the value it has in the grid *)
samePlacement(g) == \A q \in Points : valueAt(g, q) = valueAt(grid, q)

(* #step(m) followed by #undo(m) on the current board *)
steppedAndUndone(m) ==
  undo(step(grid, takenPiece, m).grid, step(grid, takenPiece, m).takenPiece, m)

(* C21: for every candidate move of every piece on the board, of every  *)
(* kind, #step followed by #undo leaves on every square the piece that  *)
(* stood there, a captured piece included; and a rebuild of the index   *)
(* leaves the board as it was.  (Neither #step nor #undo nor the        *)
(* rebuild assigns a moved flag, the side to move or the last move.)    *)
C21_StepUndoRoundTrip ==
  /\ \A p \in Points :
       valueAt(grid, p) # None =>
         \A m \in candidatesAt(p) :
           /\ step(grid, takenPiece, m).threw = NoError
           /\ samePlacement(steppedAndUndone(m))
  /\ Initialised =>
       samePlacement(precomputeMoves(grid, takenPiece, pieces, playingColor,
                                     lastMove).grid)

(* a move has been applied and the position it left has an en passant *)
(* candidate, whose #step remembers the pawn it passes                *)
C21_Witness ==
  /\ ret.op = "move" /\ ret.success
  /\ \E p \in Points :
       /\ valueAt(grid, p) # None
       /\ \E m \in candidatesAt(p) :
            /\ m.moveType = EN_PASSANT
            /\ step(grid, takenPiece, m).takenPiece = valueAt(grid, m.captureAt)
            /\ valueAt(grid, m.captureAt) # None

(* the board after the en passant move m with the captured pawn removed *)
enPassantBoard(m) ==
  setValueAt(moveValue(grid, m.from, m.to), m.captureAt, None)

(* C23: an en passant candidate of the side to move is listed iff, on the *)
(* board with the pawn moved and the pawn at captureAt removed, the       *)
(* mover's king exists and no capturing enemy candidate lands on it: the  *)
(* pawn at captureAt neither attacks the king nor shields it.             *)
C23_EnPassantJudgedWithoutCaptured ==
  (ret.op = "move" /\ ret.success) =>
    \A p \in Points :
      (holds(p, playingColor) /\ pieces[valueAt(grid, p)].kind = PAWN) =>
        \A m \in enPassantMoves(p) :
          (m \in movesAt(p)) <=> kingSafe(enPassantBoard(m), playingColor)

(* the pawn that has just advanced two squares gives check, and the pawn *)
(* beside it has an en passant candidate that takes it                   *)
C23_Witness ==
  /\ ret.op = "move" /\ ret.success
  /\ ~kingSafe(grid, playingColor)
  /\ \E p \in Points :
       /\ holds(p, playingColor) /\ pieces[valueAt(grid, p)].kind = PAWN
       /\ \E m \in enPassantMoves(p) : kingSafe(enPassantBoard(m), playingColor)

(* the squares strictly between p and q, two points of one row *)
between(p, q) ==
  {r \in Points : /\ r.y = p.y
                  /\ \/ (p.x < r.x /\ r.x < q.x)
                     \/ (q.x < r.x /\ r.x < p.x)}

(* C22: every castle among the candidate moves of a king is the castle  *)
(* of an unmoved king with the first piece met walking outward on its   *)
(* row, which is an unmoved rook of the king's colour, and the squares  *)
(* the king and the rook go to are empty.                               *)
C22_CastleOnlyWithOwnUnmovedRook ==
  \A p \in Points :
    (valueAt(grid, p) # None /\ pieces[valueAt(grid, p)].kind = KING) =>
      \A m \in candidatesAt(p) :
        m.moveType = CASTLE =>
          /\ ~pieces[valueAt(grid, p)].moved
          /\ isInside(m.rookFrom) /\ m.rookFrom.y = p.y
          /\ valueAt(grid, m.rookFrom) = m.rook
          /\ \A r \in between(p, m.rookFrom) : valueAt(grid, r) = None
          /\ pieces[m.rook].kind = ROOK
          /\ pieces[m.rook].color = pieces[valueAt(grid, p)].color
          /\ ~pieces[m.rook].moved
          /\ isInside(m.to) /\ valueAt(grid, m.to) = None
          /\ isInside(m.rookTo) /\ valueAt(grid, m.rookTo) = None

(* the first piece met walking outward from an unmoved king is an unmoved *)
(* rook of the other colour, at least three squares away                 *)
C22_Witness ==
  \E p \in Points : \E q \in Points :
    /\ valueAt(grid, p) # None /\ pieces[valueAt(grid, p)].kind = KING
    /\ ~pieces[valueAt(grid, p)].moved
    /\ q.y = p.y /\ (q.x - p.x >= 3 \/ p.x - q.x >= 3)
    /\ valueAt(grid, q) # None /\ pieces[valueAt(grid, q)].kind = ROOK
    /\ ~pieces[valueAt(grid, q)].moved
    /\ pieces[valueAt(grid, q)].color # pieces[valueAt(grid, p)].color
    /\ \A r \in between(p, q) : valueAt(grid, r) = None

(* on the board g, reached by stepping the candidate m of the side to  *)
(* move, a capturing candidate of an enemy piece lands on the mover's  *)
(* king or, for a castle, on a square the king passes; or the mover    *)
(* has no king                                                         *)
capturingThreat(g, m) ==
  LET kings == {k \in Points : /\ valueAt(g, k) # None
                               /\ pieces[valueAt(g, k)].kind = KING
                               /\ pieces[valueAt(g, k)].color = playingColor}
      targets == kings \cup
                 (IF m.moveType = CASTLE
                  THEN {kingPositions(m)[i] : i \in 1..Len(kingPositions(m))}
                  ELSE {})
  IN  \/ kings = {}
      \/ \E e \in Points :
           /\ valueAt(g, e) # None
           /\ pieces[valueAt(g, e)].color # playingColor
           /\ \E j \in 1..Len(pieceMove(valueAt(g, e), e, g, pieces, lastMove)) :
                /\ pieceMove(valueAt(g, e), e, g, pieces, lastMove)[j].moveType = CAPTURE
                /\ pieceMove(valueAt(g, e), e, g, pieces, lastMove)[j].to \in targets

(* the index has just been rebuilt by a successful init or move *)
rebuilt == ret.op \in {"init", "move"} /\ ret.success

(* C24: a candidate of the side to move, of any kind, castle included, *)
(* is left out of the index only if a capturing candidate of an enemy  *)
(* piece lands on the king (for a castle, on a square the king passes); *)
(* an enemy candidate that is not capturing rejects nothing.           *)
C24_OnlyCapturesThreaten ==
  rebuilt =>
    \A p \in Points :
      holds(p, playingColor) =>
        \A m \in candidatesAt(p) :
          m \notin movesAt(p) =>
            capturingThreat(step(grid, takenPiece, m).grid, m)

(* the index has been rebuilt for a king with a castle candidate, and on *)
(* the board with the castle stepped an enemy pawn has a forward step    *)
(* onto a square the king passes                                        *)
C24_Witness ==
  /\ rebuilt
  /\ \E p \in Points :
       /\ holds(p, playingColor)
       /\ \E m \in candidatesAt(p) :
            /\ m.moveType = CASTLE
            /\ ~capturingThreat(step(grid, takenPiece, m).grid, m)
            /\ \E e \in Points :
                 /\ valueAt(grid, e) # None
                 /\ pieces[valueAt(grid, e)].kind = PAWN
                 /\ pieces[valueAt(grid, e)].color # playingColor
                 /\ \E j \in 1..2 : \E i \in 1..3 :
                      LET ems == pieceMove(valueAt(grid, e), e,
                                           step(grid, takenPiece, m).grid,
                                           pieces, lastMove)
                      IN  /\ j <= Len(ems)
                          /\ ems[j].moveType = MOVE
                          /\ ems[j].to = kingPositions(m)[i]

(* the errors of the engine's internal guards *)
GuardErrors ==
  {"Invalid move generated",
   "Cannot step moveType.MOVE to place with existing piece"}

(* C25: every candidate move whose destination holds an enemy piece is  *)
(* tagged capture, every plain, castle or en passant candidate goes to  *)
(* an empty square of the board, and no call of init or move throws     *)
(* 'Invalid move generated' or 'Cannot step moveType.MOVE to place with *)
(* existing piece'.                                                     *)
C25_GuardsNeverRaised ==
  /\ \A p \in Points :
       valueAt(grid, p) # None =>
         \A m \in candidatesAt(p) :
           /\ (/\ isInside(m.to)
               /\ valueAt(grid, m.to) # None
               /\ pieces[valueAt(grid, m.to)].color # pieces[valueAt(grid, p)].color)
                => m.moveType = CAPTURE
           /\ m.moveType \in {MOVE, CASTLE, EN_PASSANT} =>
                (isInside(m.to) /\ valueAt(grid, m.to) = None)
  /\ ret.threw \notin GuardErrors

(* a move listed as plain has been asked for while a piece stands on its *)
(* destination                                                          *)
C25_Witness ==
  /\ ret.op = "move" /\ ret.listed
  /\ ret.move.moveType = MOVE
  /\ ret.threw \in GuardErrors

(* the kind and the destination of the candidates of the piece on p that *)
(* are of one of the kinds in types                                      *)
destinationsOfKind(p, types) ==
  {<<m.moveType, m.to>> : m \in {c \in candidatesAt(p) : c.moveType \in types}}

(* the point n steps ahead of the pawn on p *)
ahead(p, n) ==
  Point(p.x + n * PawnDirection(pieces[valueAt(grid, p)].color).x,
        p.y + n * PawnDirection(pieces[valueAt(grid, p)].color).y)

(* point q is on the board and empty *)
free(q) == isInside(q) /\ valueAt(grid, q) = None

(* C26: the plain candidates of a pawn are the square straight ahead if   *)
(* it is empty and, for a pawn that has not moved, the square after it if *)
(* both are empty; its capturing candidates are the forward-diagonal      *)
(* squares that are on the board and hold an enemy piece.                 *)
C26_PawnCandidates ==
  \A p \in Points :
    (valueAt(grid, p) # None /\ pieces[valueAt(grid, p)].kind = PAWN) =>
      /\ destinationsOfKind(p, {MOVE}) =
           {<<MOVE, q>> : q \in
              {q \in {ahead(p, 1)} : free(q)} \cup
              {q \in {ahead(p, 2)} : /\ ~pieces[valueAt(grid, p)].moved
                                     /\ free(ahead(p, 1)) /\ free(q)}}
      /\ destinationsOfKind(p, {CAPTURE}) =
           {<<CAPTURE, q>> : q \in
              {q \in {add(p, PawnCapturingDirections(
                                 pieces[valueAt(grid, p)].color)[i]) : i \in 1..2} :
                 /\ isInside(q)
                 /\ valueAt(grid, q) # None
                 /\ pieces[valueAt(grid, q)].color # pieces[valueAt(grid, p)].color}}

(* after a move, a pawn has a capturing candidate, a pawn that has not *)
(* moved has both forward candidates and a pawn that has moved has one *)
C26_Witness ==
  /\ ret.op = "move" /\ ret.success
  /\ \E p \in Points :
       /\ valueAt(grid, p) # None /\ pieces[valueAt(grid, p)].kind = PAWN
       /\ destinationsOfKind(p, {CAPTURE}) # {}
  /\ \E p \in Points :
       /\ valueAt(grid, p) # None /\ pieces[valueAt(grid, p)].kind = PAWN
       /\ ~pieces[valueAt(grid, p)].moved
       /\ Cardinality(destinationsOfKind(p, {MOVE})) = 2
  /\ \E p \in Points :
       /\ valueAt(grid, p) # None /\ pieces[valueAt(grid, p)].kind = PAWN
       /\ pieces[valueAt(grid, p)].moved
       /\ Cardinality(destinationsOfKind(p, {MOVE})) = 1

(* a pawn that has not moved stands behind a piece of its own colour *)
pawnBehindFriend ==
  \E p \in Points :
    /\ valueAt(grid, p) # None /\ pieces[valueAt(grid, p)].kind = PAWN
    /\ ~pieces[valueAt(grid, p)].moved
    /\ holds(ahead(p, 1), pieces[valueAt(grid, p)].color)
    /\ free(ahead(p, 2))

Diagonals == {Point(-1, -1), Point(1, -1), Point(1, 1), Point(-1, 1)}
Orthogonals == {Point(-1, 0), Point(0, -1), Point(1, 0), Point(0, 1)}

(* the directions of a sliding piece *)
slidingDirections(kind) ==
  CASE kind = BISHOP -> Diagonals
    [] kind = ROOK -> Orthogonals
    [] kind = QUEEN -> Diagonals \cup Orthogonals

(* the point n steps from p in direction d *)
along(p, d, n) == Point(p.x + n * d.x, p.y + n * d.y)

(* the steps a ray may take on a board of this size *)
Steps == 1..(width + height)

(* the squares of the rays of the piece on p: the empty squares before *)
(* the first occupied one as plain moves, the first occupied one as a  *)
(* capture if it holds an enemy piece                                  *)
raySquares(p, directions) ==
  {<<MOVE, along(p, d, n)>> : <<d, n>> \in
     {dn \in directions \X Steps :
        \A k \in 1..dn[2] : free(along(p, dn[1], k))}}
  \cup
  {<<CAPTURE, along(p, d, n)>> : <<d, n>> \in
     {dn \in directions \X Steps :
        /\ \A k \in 1..(dn[2] - 1) : free(along(p, dn[1], k))
        /\ isInside(along(p, dn[1], dn[2]))
        /\ valueAt(grid, along(p, dn[1], dn[2])) # None
        /\ pieces[valueAt(grid, along(p, dn[1], dn[2]))].color
             # pieces[valueAt(grid, p)].color}}

(* C27: the candidates of a bishop, a rook and a queen are the squares of *)
(* its rays (4 diagonal, 4 orthogonal, all 8): every empty square up to   *)
(* the first occupied square or the edge as a plain move, the first       *)
(* occupied square as a capture iff it holds an enemy piece, and nothing  *)
(* beyond it.                                                            *)
C27_SlidingCandidates ==
  \A p \in Points :
    (/\ valueAt(grid, p) # None
     /\ pieces[valueAt(grid, p)].kind \in {BISHOP, ROOK, QUEEN}) =>
      destinationsOfKind(p, {MOVE, CAPTURE, CASTLE, EN_PASSANT}) =
        raySquares(p, slidingDirections(pieces[valueAt(grid, p)].kind))

(* a queen has a ray that ends on an enemy piece, a ray that ends before *)
(* a piece of its own colour and a ray that reaches the edge, and a      *)
(* bishop and a rook have candidates                                     *)
C27_Witness ==
  /\ rebuilt
  /\ \E p \in Points :
       /\ valueAt(grid, p) # None /\ pieces[valueAt(grid, p)].kind = QUEEN
       /\ destinationsOfKind(p, {CAPTURE}) # {}
       /\ \E d \in Orthogonals : \E n \in 2..width :
            /\ \A k \in 1..(n - 1) : free(along(p, d, k))
            /\ holds(along(p, d, n), pieces[valueAt(grid, p)].color)
       /\ \E d \in Diagonals : \E n \in 1..width :
            /\ \A k \in 1..n : free(along(p, d, k))
            /\ ~isInside(along(p, d, n + 1))
  /\ \E p \in Points :
       /\ valueAt(grid, p) # None /\ pieces[valueAt(grid, p)].kind = BISHOP
       /\ candidatesAt(p) # {}
  /\ \E p \in Points :
       /\ valueAt(grid, p) # None /\ pieces[valueAt(grid, p)].kind = ROOK
       /\ destinationsOfKind(p, {CAPTURE}) # {}

(* the eight L-shaped offsets and the eight offsets to adjacent squares *)
LShaped ==
  {Point(a, b) : a \in {-2, 2}, b \in {-1, 1}} \cup
  {Point(a, b) : a \in {-1, 1}, b \in {-2, 2}}
Adjacent == {Point(a, b) : a \in -1..1, b \in -1..1} \ {Point(0, 0)}

(* the squares at the given offsets from p that are on the board: the *)
(* empty ones as plain moves, the ones that hold an enemy piece as    *)
(* captures                                                           *)
hopSquares(p, offsets) ==
  {<<MOVE, add(p, d)>> : d \in {d \in offsets : free(add(p, d))}}
  \cup
  {<<CAPTURE, add(p, d)>> : d \in
     {d \in offsets : /\ isInside(add(p, d))
                      /\ valueAt(grid, add(p, d)) # None
                      /\ pieces[valueAt(grid, add(p, d))].color
                           # pieces[valueAt(grid, p)].color}}

(* C28: the candidates of a knight are the squares at the eight L-shaped *)
(* offsets, and the candidates of a king other than castles the eight    *)
(* adjacent squares, that are on the board and hold no piece of the same *)
(* colour; each is a capture iff the square holds an enemy piece and a   *)
(* plain move otherwise.                                                 *)
C28_KnightAndKingCandidates ==
  \A p \in Points :
    valueAt(grid, p) # None =>
      /\ pieces[valueAt(grid, p)].kind = KNIGHT =>
           destinationsOfKind(p, {MOVE, CAPTURE, CASTLE, EN_PASSANT})
             = hopSquares(p, LShaped)
      /\ pieces[valueAt(grid, p)].kind = KING =>
           destinationsOfKind(p, {MOVE, CAPTURE, EN_PASSANT})
             = hopSquares(p, Adjacent)

(* a knight has a plain and a capturing candidate and an L-shaped square *)
(* held by a piece of its own colour, and a king stands at the edge with *)
(* a plain candidate                                                     *)
C28_Witness ==
  /\ rebuilt
  /\ \E p \in Points :
       /\ valueAt(grid, p) # None /\ pieces[valueAt(grid, p)].kind = KNIGHT
       /\ destinationsOfKind(p, {MOVE}) # {}
       /\ destinationsOfKind(p, {CAPTURE}) # {}
       /\ \E d \in LShaped : holds(add(p, d), pieces[valueAt(grid, p)].color)
  /\ \E p \in Points :
       /\ valueAt(grid, p) # None /\ pieces[valueAt(grid, p)].kind = KING
       /\ destinationsOfKind(p, {MOVE}) # {}
       /\ \E d \in Adjacent : ~isInside(add(p, d))

(* point a comes before point b in row-major order *)
rowMajorBefore(a, b) == a.y < b.y \/ (a.y = b.y /\ a.x < b.x)

(* C29: Grid.each visits every point of the grid exactly once, in        *)
(* row-major order (all x of y = 0, then all x of y = 1, ...), and       *)
(* getState lists the pieces in that order.                              *)
C29_EachRowMajor ==
  /\ \A q \in Points : Cardinality({k \in 1..size : each[k] = q}) = 1
  /\ \A k \in 1..size : each[k] = Point((k - 1) % width, (k - 1) \div width)
  /\ ret.op = "getState" =>
       \A i \in 1..Len(ret.list) : \A j \in (i + 1)..Len(ret.list) :
         rowMajorBefore(ret.list[i].point, ret.list[j].point)

(* getState has listed two pieces that stand on different rows and on *)
(* different columns                                                  *)
C29_Witness ==
  /\ ret.op = "getState"
  /\ \E i \in 1..Len(ret.list) : \E j \in 1..Len(ret.list) :
       /\ ret.list[i].point.x # ret.list[j].point.x
       /\ ret.list[i].point.y # ret.list[j].point.y

(* C30: a call of move that returns carries a move object iff it returns *)
(* success = true; on every failure the move field is undefined or null. *)
C30_MoveIffSuccess ==
  (ret.op = "move" /\ ret.threw = NoError) =>
    (ret.success <=> ret.move \notin {NullMove, UndefinedMove})

(* a call of move has failed, while the game is on, for a destination *)
(* that is not listed                                                 *)
C30_Witness ==
  /\ ret.op = "move" /\ ret.threw = NoError
  /\ ~ret.success /\ ~ret.listed
  /\ Initialised /\ ~isGameOver

(* C31: in every state reached after a successful init, isGameOver() is *)
(* true iff the index is empty on every square.                         *)
C31_GameOverIffIndexEmpty ==
  Initialised => (isGameOver <=> IndexEmpty)

(* a successful init has left an index that is empty on every square *)
C31_Witness ==
  ret.op = "init" /\ ret.success /\ Initialised /\ IndexEmpty

(* a pawn stands on p, the last rank in its direction of travel *)
pawnOnFarthestRank(p) ==
  /\ valueAt(grid, p) # None
  /\ pieces[valueAt(grid, p)].kind = PAWN
  /\ ~isInside(add(p, PawnDirection(pieces[valueAt(grid, p)].color)))

(* C32: in every position reached through successful calls of move, with *)
(* or without a promotion code, no pawn stands on its farthest rank.     *)
C32_NoPawnOnFarthestRank ==
  (Initialised /\ lastMove # NullMove) =>
    \A p \in Points : ~pawnOnFarthestRank(p)

(* a pawn has moved to its farthest rank in a call without a promotion *)
(* code                                                                *)
C32_Witness ==
  /\ ret.op = "move" /\ ret.success /\ ret.promotionCode = NoCode
  /\ toFarthestRank(ret.move)

(* C33: after a successful move that promotes a pawn, the piece on the *)
(* destination has the colour of the pawn, whatever colour letter the  *)
(* promotion code carries.                                             *)
C33_PromotedKeepsColour ==
  (ret.op = "move" /\ ret.success /\ ret.promotionCode # NoCode
     /\ toFarthestRank(ret.move)) =>
    /\ valueAt(grid, ret.move.to) # None
    /\ pieces[valueAt(grid, ret.move.to)].color = pieces[ret.move.piece].color

(* a pawn was promoted with a code that carries the other colour's letter *)
C33_Witness ==
  /\ ret.op = "move" /\ ret.success /\ ret.promotionCode # NoCode
  /\ toFarthestRank(ret.move)
  /\ ret.promotionCode[1] # pieces[ret.move.piece].color

(* the board holds exactly one king of each colour *)
oneKingEach ==
  \A color \in {WHITE, BLACK} :
    Cardinality({p \in Points : /\ valueAt(grid, p) # None
                                /\ pieces[valueAt(grid, p)].kind = KING
                                /\ pieces[valueAt(grid, p)].color = color}) = 1

(* no move listed in the index lands on a square that holds a king *)
noKingTarget ==
  \A p \in Points : \A m \in movesAt(p) :
    ~(valueAt(grid, m.to) # None /\ pieces[valueAt(grid, m.to)].kind = KING)

(* the index is the one #precomputeMoves builds for the current position: *)
(* no call has thrown since it was built                                  *)
indexFresh ==
  moveArray = precomputeMoves(grid, takenPiece, pieces, playingColor,
                              lastMove).moveArray

(* no promotion code, or one that names a queen, rook, bishop or knight *)
(* of colour color                                                      *)
namesOfficer(code, color) ==
  code = NoCode \/ (code[1] = color /\ code[2] \in {"q", "r", "b", "n"})

-----------------------------------------------------------------------------
(* The application of src/app.js: the adapter, the UserInterface object,   *)
(* the pointer handlers and the page they change.  The engine is the one   *)
(* above, constructed with BOARD_SQUARES_WIDTH and BOARD_SQUARES_HEIGHT.   *)

(* ControlType *)
CLICK == "click"
DROP == "drop"

(* ChessEngineAdapter.squareNumberFromPoint *)
squareNumberFromPoint(point) == point.x + point.y * BOARD_SQUARES_WIDTH

(* ChessEngineAdapter.pointFromSquareNumber; null % 8 and floor(null / 8) *)
(* are 0                                                                  *)
pointFromSquareNumber(squareNumber) ==
  IF squareNumber = Null THEN Point(0, 0)
  ELSE Point(squareNumber % BOARD_SQUARES_WIDTH,
             squareNumber \div BOARD_SQUARES_HEIGHT)

(* codeFromPiece *)
codeFromPiece(piece) == <<piece.color, piece.kind>>

(* ChessEngineAdapter.getState with the code of each piece: what          *)
(* resetToBoardState reads                                                *)
adapterState ==
  [k \in 1..Len(getState) |->
     [code |-> codeFromPiece(pieces[getState[k].piece]),
      squareNumber |-> squareNumberFromPoint(getState[k].point)]]

(* resetToBoardState: one new element per position, in the order of getState *)
resetToBoardState ==
  [k \in 1..Len(adapterState) |->
     [id |-> k, code |-> adapterState[k].code,
      squareNumber |-> adapterState[k].squareNumber]]

(* #getPieceAt: the index in d of the first element of the square, 0 for *)
(* undefined                                                             *)
getPieceAt(d, squareNumber) ==
  IF \E k \in 1..Len(d) : d[k].squareNumber = squareNumber
  THEN CHOOSE k \in 1..Len(d) :
         /\ d[k].squareNumber = squareNumber
         /\ \A j \in 1..(k - 1) : d[j].squareNumber # squareNumber
  ELSE 0

(* canDrag *)
canDrag(u, d, squareNumber) ==
  getPieceAt(d, squareNumber) # 0 /\ squareNumber \notin u.undraggableSquares

(* beginDrag, endDrag *)
beginDrag(u) == [u EXCEPT !.isDragging = TRUE]
endDrag(u) == [u EXCEPT !.isDragging = FALSE]

(* #recordIfHadSelected: if (this.selected) *)
recordIfHadSelected(u) ==
  IF u.selected # Null /\ u.selected # 0
  THEN [u EXCEPT !.hadSelected = TRUE, !.hadSelectedSquareNumber = u.selected]
  ELSE [u EXCEPT !.hadSelected = FALSE, !.hadSelectedSquareNumber = Null]

(* #updateBoardHints: the squares that get a marker become undraggable *)
updateBoardHints(squareNumber) ==
  {squareNumberFromPoint(getMovesAtPoint(pointFromSquareNumber(squareNumber))[i].to) :
     i \in 1..Len(getMovesAtPoint(pointFromSquareNumber(squareNumber)))}

(* select *)
select(u, squareNumber) ==
  [recordIfHadSelected(u) EXCEPT !.selected = squareNumber,
                                 !.undraggableSquares = updateBoardHints(squareNumber)]

(* deselect *)
deselect(u) == [u EXCEPT !.selected = Null, !.undraggableSquares = {}]

(* the test of checkPromotion: ChessEngineAdapter.isPromotion *)
checkPromotion(u, squareNumber) ==
  isPromotion(pointFromSquareNumber(u.selected), pointFromSquareNumber(squareNumber))

(* #openPromotionWindow: the listeners of the four options keep the square *)
(* and the codes of the colour to move                                    *)
openPromotionWindow(u, squareNumber) ==
  [u EXCEPT !.waitingForPromotion = TRUE, !.promotionSquare = squareNumber,
            !.promotionColor = playingColor]

(* the cleanup of #handlePromotion *)
closePromotionWindow(u) ==
  [u EXCEPT !.waitingForPromotion = FALSE, !.promotionSquare = Null,
            !.promotionColor = ""]

(* What a pointer handler has done when it returns or reaches its call of *)
(* requestMove: the fields of the UserInterface, and the arguments of the *)
(* call ui.requestMove(squareNumber, controlType); the handler that       *)
(* returns without the call has the controlType "".                       *)
Handler(u, squareNumber, controlType) ==
  [ui |-> u, squareNumber |-> squareNumber, controlType |-> controlType]

(* handleMouseUp *)
handleMouseUp(u, squareNumber) ==
  IF ~u.isDragging THEN Handler(u, Null, "")
  ELSE IF squareNumber = Undefined THEN Handler(endDrag(u), Null, "")
  ELSE IF u.waitingForPromotion THEN Handler(endDrag(u), Null, "")
  ELSE IF checkPromotion(u, squareNumber)
  THEN Handler(openPromotionWindow(endDrag(u), squareNumber), Null, "")
  ELSE Handler(endDrag(u), squareNumber, DROP)

(* handleMouseDown *)
handleMouseDown(u, d, squareNumber, button) ==
  IF isGameOver THEN Handler(u, Null, "")
  ELSE IF u.isDragging \/ squareNumber = Undefined
  THEN handleMouseUp(deselect(u), squareNumber)
  ELSE IF button # 0 THEN Handler(u, Null, "")
  ELSE IF canDrag(u, d, squareNumber) /\ ~u.waitingForPromotion
  THEN Handler(select(beginDrag(u), squareNumber), Null, "")
  ELSE IF u.selected # Null
  THEN IF u.waitingForPromotion THEN Handler(u, Null, "")
       ELSE IF checkPromotion(u, squareNumber)
       THEN Handler(openPromotionWindow(u, squareNumber), Null, "")
       ELSE Handler(u, squareNumber, CLICK)
  ELSE Handler(u, Null, "")

(* #setPiecePosition on element k of d *)
setPiecePosition(d, k, squareNumber) == [d EXCEPT ![k].squareNumber = squareNumber]

(* #createPiece: a new element, told from the others by its id *)
createPiece(d, code, squareNumber) ==
  [id |-> 1 + (CHOOSE n \in {d[k].id : k \in 1..Len(d)} :
                 \A k \in 1..Len(d) : d[k].id <= n),
   code |-> code, squareNumber |-> squareNumber]

(* requestMove after a successful engine.move, the part that moves the    *)
(* elements: the page, the pending removals and whether a TypeError left  *)
(* the method (an element the code expects is missing)                    *)
moveElements(d, t, m, squareNumber, promotionPieceCode, selectedPiece, destinationPiece) ==
  IF selectedPiece = 0 THEN [dom |-> d, timers |-> t, threw |-> TRUE]
  ELSE IF m.moveType = CASTLE
  THEN IF getPieceAt(setPiecePosition(d, selectedPiece, squareNumber),
                     squareNumberFromPoint(m.rookFrom)) = 0
       THEN [dom |-> setPiecePosition(d, selectedPiece, squareNumber),
             timers |-> t \cup (IF destinationPiece # 0 THEN {d[destinationPiece].id}
                                ELSE {}),
             threw |-> TRUE]
       ELSE [dom |-> setPiecePosition(
                       setPiecePosition(d, selectedPiece, squareNumber),
                       getPieceAt(setPiecePosition(d, selectedPiece, squareNumber),
                                  squareNumberFromPoint(m.rookFrom)),
                       squareNumberFromPoint(m.rookTo)),
             timers |-> t \cup (IF destinationPiece # 0 THEN {d[destinationPiece].id}
                                ELSE {}),
             threw |-> FALSE]
  ELSE IF promotionPieceCode # NoCode
  THEN [dom |-> Append(SelectSeq(d, LAMBDA e : e.id # d[selectedPiece].id),
                       createPiece(d, promotionPieceCode, squareNumberFromPoint(m.to))),
        timers |-> t \cup (IF destinationPiece # 0 THEN {d[destinationPiece].id}
                           ELSE {}),
        threw |-> FALSE]
  ELSE [dom |-> setPiecePosition(d, selectedPiece, squareNumber),
        timers |-> t \cup (IF destinationPiece # 0 THEN {d[destinationPiece].id}
                           ELSE {}),
        threw |-> FALSE]

(* requestMove(squareNumber, controlType, promotionPieceCode), when        *)
(* engine.move(this.selected, squareNumber, promotionPieceCode) has had   *)
(* the outcome o: the UserInterface, the page and the pending removals    *)
(* after it, and whether an exception left the method                     *)
requestMove(u, d, t, o, squareNumber, controlType, promotionPieceCode) ==
  IF o.threw # NoError THEN [ui |-> u, dom |-> d, timers |-> t, threw |-> TRUE]
  ELSE IF ~o.success
  THEN [ui |-> IF controlType = CLICK
               THEN IF squareNumber # u.selected THEN deselect(u) ELSE u
               ELSE IF u.hadSelected /\ squareNumber = u.hadSelectedSquareNumber
               THEN deselect(u) ELSE u,
        dom |-> d, timers |-> t, threw |-> FALSE]
  ELSE LET moved == moveElements(d, t, o.move, squareNumber, promotionPieceCode,
                                 getPieceAt(d, u.selected),
                                 IF o.move.moveType = EN_PASSANT
                                 THEN getPieceAt(d, squareNumberFromPoint(o.move.captureAt))
                                 ELSE getPieceAt(d, squareNumber))
       IN  [ui |-> IF moved.threw THEN u
                   ELSE IF o.isGameOver
                   THEN deselect([u EXCEPT !.gameOverModal = TRUE])
                   ELSE deselect([u EXCEPT !.flipped = ~u.flipped]),
            dom |-> moved.dom, timers |-> moved.timers, threw |-> moved.threw]

-----------------------------------------------------------------------------
(* The application as a state machine: the events of one pointer and the  *)
(* timers of the page.                                                    *)

(* The games played, as the moves <<from, to>> in square numbers: sq(px, py) *)
(* is the square of column px and row py, row 0 being Black's back rank.    *)
Games ==
  {\* 1. f3 e5 2. g4 Qh4 mate
   << <<sq(5, 6), sq(5, 5)>>, <<sq(4, 1), sq(4, 3)>>,
      <<sq(6, 6), sq(6, 4)>>, <<sq(3, 0), sq(7, 4)>> >>,
   \* 1. e4 a6 2. e5 d5 3. exd6 en passant
   << <<sq(4, 6), sq(4, 4)>>, <<sq(0, 1), sq(0, 2)>>,
      <<sq(4, 4), sq(4, 3)>>, <<sq(3, 1), sq(3, 3)>>,
      <<sq(4, 3), sq(3, 2)>> >>,
   \* 1. a4 b5 2. axb5 a6 3. bxa6 Bb7 4. axb7 Na6 5. bxa8 with a promotion
   << <<sq(0, 6), sq(0, 4)>>, <<sq(1, 1), sq(1, 3)>>,
      <<sq(0, 4), sq(1, 3)>>, <<sq(0, 1), sq(0, 2)>>,
      <<sq(1, 3), sq(0, 2)>>, <<sq(2, 0), sq(1, 1)>>,
      <<sq(0, 2), sq(1, 1)>>, <<sq(1, 0), sq(0, 2)>>,
      <<sq(1, 1), sq(0, 0)>> >>,
   \* 1. Nf3 a6 2. g3 a5 3. Bg2 a4 4. O-O
   << <<sq(6, 7), sq(5, 5)>>, <<sq(0, 1), sq(0, 2)>>,
      <<sq(6, 6), sq(6, 5)>>, <<sq(0, 2), sq(0, 3)>>,
      <<sq(5, 7), sq(6, 6)>>, <<sq(0, 3), sq(0, 4)>>,
      <<sq(4, 7), sq(6, 7)>> >>}

(* Where the pointer is pressed and released: on the two squares of the   *)
(* next move of the game and, before the first move of a game and while   *)
(* the promotion window is open, also outside the board and on the corner *)
(* square 0.                                                              *)
Touches ==
  (IF nMoves < Len(plan) THEN {plan[nMoves + 1][1], plan[nMoves + 1][2]} ELSE {})
  \cup (IF nMoves = 0 \/ ui.waitingForPromotion THEN {Undefined, 0} ELSE {})

(* The user plays the game of the plan: a request that the engine would  *)
(* resolve to a move is made only for the next move of the plan.  Every  *)
(* request the engine turns down is made.                                *)
Plays(u, squareNumber) ==
  \/ isGameOver
  \/ ~listed(pointFromSquareNumber(u.selected), pointFromSquareNumber(squareNumber))
  \/ /\ nMoves < Len(plan)
     /\ plan[nMoves + 1] = <<u.selected, squareNumber>>

(* a call the application makes on its engine; nMoves counts the moves the *)
(* engine has resolved since the latest init, nCoded the ones with a code  *)
EngineCall(op, o, isListed, promotionCode, l) ==
  /\ Apply(o)
  /\ ret' = Returned(op, o, isListed, promotionCode, l)
  /\ movedOnce' = Moved(op, o)
  /\ nMoves' = IF op = "init" THEN 0
                ELSE IF isListed /\ ~isGameOver THEN nMoves + 1 ELSE nMoves
  /\ nCoded' = IF op = "init" THEN 0
                ELSE IF isListed /\ ~isGameOver /\ promotionCode # NoCode
                THEN nCoded + 1 ELSE nCoded

(* the call requestMove(squareNumber, controlType, promotionPieceCode) a  *)
(* handler ends with, o being the outcome of its engine.move; with       *)
(* window, the caller is #handlePromotion, which then closes the         *)
(* promotion window unless an exception has left it                      *)
Requests(u, o, squareNumber, controlType, promotionPieceCode, window) ==
  /\ EngineCall("move", o,
                listed(pointFromSquareNumber(u.selected),
                       pointFromSquareNumber(squareNumber)),
                promotionPieceCode, NoLayout)
  /\ LET r == requestMove(u, dom, timers, o, squareNumber, controlType,
                          promotionPieceCode)
     IN  /\ ui' = IF window /\ ~r.threw THEN closePromotionWindow(r.ui) ELSE r.ui
         /\ dom' = r.dom
         /\ timers' = r.timers

(* a pointer handler that has run as h says *)
Handles(h) ==
  IF h.controlType = ""
  THEN /\ ui' = h.ui
       /\ UNCHANGED <<width, height, engineVars, ret, movedOnce, nMoves, nCoded,
                      dom, timers>>
  ELSE /\ Plays(h.ui, h.squareNumber)
       /\ Requests(h.ui,
                   moveOutcome(pointFromSquareNumber(h.ui.selected),
                               pointFromSquareNumber(h.squareNumber), NoCode),
                   h.squareNumber, h.controlType, NoCode, FALSE)

(* pointerdown with the pointer at squareNumber.  A removal is due at most *)
(* the 0.1 s of the slide after the move; the pointer is pressed again    *)
(* when it has run.                                                       *)
PointerDown(squareNumber, button) ==
  /\ ~pointerDown
  /\ timers = {}
  /\ pointerDown' = TRUE
  /\ event' = [type |-> "pointerdown", squareNumber |-> squareNumber,
               onSelected |-> squareNumber = ui.selected]
  /\ plan' = plan
  /\ Handles(handleMouseDown(ui, dom, squareNumber, button))

(* pointerup with the pointer at squareNumber *)
PointerUp(squareNumber) ==
  /\ pointerDown
  /\ pointerDown' = FALSE
  /\ event' = [type |-> "pointerup", squareNumber |-> squareNumber,
               onSelected |-> FALSE]
  /\ plan' = plan
  /\ Handles(handleMouseUp(ui, squareNumber))

(* click on the option of the promotion window that carries code: *)
(* #handlePromotion(squareNumber, code)                          *)
ClickOption(code) ==
  /\ ~pointerDown
  /\ ui.promotionSquare # Null
  /\ Plays(ui, ui.promotionSquare)
  /\ event' = [type |-> "option", squareNumber |-> ui.promotionSquare,
               onSelected |-> FALSE]
  /\ UNCHANGED <<pointerDown, plan>>
  /\ Requests(ui,
              moveOutcome(pointFromSquareNumber(ui.selected),
                          pointFromSquareNumber(ui.promotionSquare), code),
              ui.promotionSquare, CLICK, code, TRUE)

(* click on the rematch button: handleRematch.  The removals still pending *)
(* are of elements replaceChildren has taken off the page.                *)
ClickRematch ==
  /\ ~pointerDown
  /\ ui.gameOverModal
  /\ EngineCall("init", initOutcome(layout), FALSE, NoCode, layout)
  /\ dom' = resetToBoardState'
  /\ timers' = {}
  /\ ui' = [ui EXCEPT !.gameOverModal = FALSE]
  /\ event' = [type |-> "rematch", squareNumber |-> Undefined, onSelected |-> FALSE]
  /\ UNCHANGED <<pointerDown, plan>>

(* a setTimeout of requestMove runs: destinationPiece.remove() *)
Timeout(id) ==
  /\ id \in timers
  /\ dom' = SelectSeq(dom, LAMBDA e : e.id # id)
  /\ timers' = timers \ {id}
  /\ UNCHANGED <<width, height, engineVars, ret, movedOnce, nMoves, nCoded,
                 ui, pointerDown, event, plan>>

(* The script of the page up to the engine and the UserInterface it       *)
(* constructs: new ChessEngine(BOARD_SQUARES_WIDTH, BOARD_SQUARES_HEIGHT) *)
(* and new UserInterface(engine).                                         *)
UiInit ==
  /\ width = constructed(BOARD_SQUARES_WIDTH, BOARD_SQUARES_HEIGHT).width
  /\ height = constructed(BOARD_SQUARES_WIDTH, BOARD_SQUARES_HEIGHT).height
  /\ grid = [i \in 0..(BOARD_SQUARES_WIDTH * BOARD_SQUARES_HEIGHT - 1) |-> None]
  /\ pieces = <<>>
  /\ moveArray = <<>>
  /\ playingColor = WHITE
  /\ takenPiece = None
  /\ lastMove = NullMove
  /\ isGameOver = TRUE
  /\ ret = [op |-> "new", listed |-> FALSE, success |-> TRUE, threw |-> NoError,
            move |-> NullMove, promotionCode |-> NoCode, layout |-> NoLayout,
            from |-> NoPoint, to |-> NoPoint, value |-> FALSE, list |-> <<>>,
            again |-> FALSE]
  /\ movedOnce = {}
  /\ nMoves = 0
  /\ nCoded = 0
  /\ ui = UserInterface
  /\ dom = <<>>
  /\ timers = {}
  /\ pointerDown = FALSE
  /\ event = [type |-> "none", squareNumber |-> Undefined, onSelected |-> FALSE]
  /\ plan \in Games

(* the rest of the script: engine.init(layout), ui.resetToBoardState() and *)
(* initPlayerControls(), after which the events are handled                *)
Start ==
  /\ ret.op = "new"
  /\ EngineCall("init", initOutcome(layout), FALSE, NoCode, layout)
  /\ dom' = resetToBoardState'
  /\ UNCHANGED <<ui, timers, pointerDown, event, plan>>

(* the events: the pointer is pressed with the main or the secondary    *)
(* button and released, once the listeners are set; an option and the   *)
(* rematch button are there to click when their overlay is open         *)
UiNext ==
  \/ Start
  \/ ret.op # "new" /\ \E squareNumber \in Touches : \E button \in {0, 2} :
       PointerDown(squareNumber, button)
  \/ ret.op # "new" /\ \E squareNumber \in Touches : PointerUp(squareNumber)
  \/ \E kind \in {QUEEN, KNIGHT, ROOK, BISHOP} :
       ClickOption(<<ui.promotionColor, kind>>)
  \/ ClickRematch
  \/ \E id \in timers : Timeout(id)

UiSpec == UiInit /\ [][UiNext]_vars

-----------------------------------------------------------------------------
(* Properties of the application. *)

(* the step is a pointerdown whose handler has called beginDrag and select *)
selects == ~pointerDown /\ pointerDown' /\ ui'.isDragging

(* the step is the pointerup that drops the dragged piece on the square it *)
(* was pressed on, where it stood selected before the press               *)
dropsOnOwnSquare ==
  /\ pointerDown /\ ~pointerDown'
  /\ ui.isDragging /\ event.onSelected
  /\ event'.squareNumber = event.squareNumber

(* C36: select(sq) records hadSelected = true and hadSelectedSquareNumber = *)
(* the previous selection whenever a square was selected before it, for    *)
(* every square number 0..63; hence pressing and releasing on the piece    *)
(* that is already selected deselects it, whichever square it stands on.   *)
C36_SelectRecordsPrevious ==
  [][/\ (selects /\ ui.selected # Null) =>
          (ui'.hadSelected /\ ui'.hadSelectedSquareNumber = ui.selected)
     /\ dropsOnOwnSquare => ui'.selected = Null]_vars

(* the selected piece of square 0 has been pressed again *)
C36_Witness ==
  /\ ui.isDragging /\ event.type = "pointerdown" /\ event.onSelected
  /\ ui.selected = 0 /\ event.squareNumber = 0

(* C36 for the squares 1..63 *)
C36_FromSquareOne ==
  [][/\ (selects /\ ui.selected \notin {Null, 0}) =>
          (ui'.hadSelected /\ ui'.hadSelectedSquareNumber = ui.selected)
     /\ (dropsOnOwnSquare /\ event.squareNumber # 0) => ui'.selected = Null]_vars

(* a selected piece of another square has been pressed again *)
C36_FromSquareOneWitness ==
  /\ ui.isDragging /\ event.type = "pointerdown" /\ event.onSelected
  /\ ui.selected # 0 /\ ui.hadSelected

(* the board is shown from the side of the colour to move *)
facesMover == ui.flipped <=> playingColor = BLACK

(* C38: whenever the game is active, the board of the page is flipped if  *)
(* and only if it is Black's turn: after every successful move and also   *)
(* after a rematch, whichever side has delivered the final move.          *)
C38_FlippedIffBlackToMove == (Initialised /\ ~isGameOver) => facesMover

(* a rematch has started after a game that Black has won *)
C38_Witness ==
  /\ event.type = "rematch" /\ ret.op = "init" /\ ret.success
  /\ Initialised /\ ~isGameOver /\ playingColor = WHITE

(* C38 for the moves: a successful move that leaves the game active keeps *)
(* the board facing the colour to move                                    *)
C38_MovesKeepFacing ==
  [][(ret'.op = "move" /\ ret'.success /\ ~isGameOver' /\ facesMover) =>
       facesMover']_vars

(* a move of Black has turned the board back to White *)
C38_MovesKeepFacingWitness ==
  /\ ret.op = "move" /\ ret.success /\ ~isGameOver
  /\ playingColor = WHITE /\ ~ui.flipped

(* the pairs of piece code and square number of the elements on the page *)
shown == {<<dom[k].code, dom[k].squareNumber>> : k \in 1..Len(dom)}

(* the pairs of piece code and square number of the adapter's getState() *)
stated ==
  {<<adapterState[k].code, adapterState[k].squareNumber>> :
     k \in 1..Len(adapterState)}

(* C35: after every successful requestMove, of a plain move, a capture, a *)
(* castle, an en passant capture or a promotion, and once the delayed     *)
(* removal of a captured element has run, the pairs of piece code and     *)
(* square number shown on the page are those of the adapter's getState(). *)
C35_PageShowsState ==
  (ret.op = "move" /\ ret.success /\ timers = {}) => shown = stated

(* a pawn has captured en passant and the removal of the element has run *)
C35_Witness ==
  /\ ret.op = "move" /\ ret.success /\ timers = {}
  /\ ret.move.moveType = EN_PASSANT /\ event.type = "pointerup"

(* C35 for the moves other than an en passant capture *)
C35_ExceptEnPassant ==
  (ret.op = "move" /\ ret.success /\ timers = {}
     /\ ret.move.moveType # EN_PASSANT) => shown = stated

(* a castle, a capture whose element has been removed and a promotion *)
C35_CastleWitness ==
  ret.op = "move" /\ ret.success /\ timers = {} /\ ret.move.moveType = CASTLE
C35_CaptureWitness ==
  /\ ret.op = "move" /\ ret.success /\ timers = {}
  /\ ret.move.moveType = CAPTURE /\ ret.promotionCode = NoCode
C35_PromotionWitness ==
  /\ ret.op = "move" /\ ret.success /\ timers = {}
  /\ ret.promotionCode # NoCode /\ event.type = "option"

(* the step is a pointer event handled while the promotion window is open *)
pointerWhileWaiting == ui.waitingForPromotion /\ pointerDown' # pointerDown

(* the step is the click on an option that closes the promotion window *)
optionClicked == ui.waitingForPromotion /\ ~ui'.waitingForPromotion

(* the promotion the window was opened for is made with the code of the *)
(* option: the move asked of the engine goes from the square of the     *)
(* promoting pawn to the promotion square                               *)
promotionRequested ==
  /\ checkPromotion(ui, ui.promotionSquare)
  /\ ret'.op = "move" /\ ret'.success
  /\ ret'.move.from = pointFromSquareNumber(ui.selected)
  /\ ret'.move.to = pointFromSquareNumber(ui.promotionSquare)
  /\ ret'.promotionCode # NoCode /\ ret'.promotionCode[1] = ui.promotionColor

(* C37: from the moment the promotion window opens until one of its       *)
(* options is clicked, no pointer event changes the selected square of    *)
(* the UserInterface, so the click on an option always requests the move  *)
(* from the square of the promoting pawn to the promotion square with the *)
(* code chosen.                                                           *)
C37_SelectionKeptWhileWaiting ==
  [][/\ pointerWhileWaiting => ui'.selected = ui.selected
     /\ optionClicked => promotionRequested]_vars

(* an option has been clicked after the pointer was pressed outside the *)
(* board with the window open                                           *)
C37_Witness ==
  /\ event.type = "option" /\ ret.op = "move" /\ ret.promotionCode # NoCode
  /\ ~ui.waitingForPromotion /\ ~ret.success

(* C37 for the pointer events inside the board *)
C37_InsideTheBoard ==
  [][/\ (pointerWhileWaiting /\ event'.squareNumber # Undefined) =>
          ui'.selected = ui.selected
     /\ (optionClicked /\ ui.selected # Null) => promotionRequested]_vars

(* the pointer has been pressed on a square with the window open, and an *)
(* option has made the promotion                                        *)
C37_InsideTheBoardWitness ==
  /\ ui.waitingForPromotion /\ event.type = "pointerdown"
  /\ event.squareNumber # Undefined /\ ui.selected # Null
C37_PromotedWitness ==
  /\ event.type = "option" /\ ret.op = "move" /\ ret.success
  /\ ret.promotionCode # NoCode /\ ~ui.waitingForPromotion

=============================================================================
